---- MODULE Spec2Model ----
(***************************************************************************)
(* F9 Batch Resampler: the real-time router (getNextAudioBlock), the       *)
(* message-thread sequencers (timerCallback, start/stop operations) and    *)
(* the pure trim / peak functions of Source/MainComponent.cpp.             *)
(*                                                                         *)
(* Samples are integers in tenths of full scale (1.0f is 10, the router's  *)
(* 0.5f detection threshold is 5, the timer's 0.1f threshold is 1).        *)
(* An AudioBuffer is a record [numChannels, frames]; frames is a sequence  *)
(* of frames and a frame is a sequence of numChannels samples. Code index  *)
(* i (0-based) is frames[i + 1].                                           *)
(***************************************************************************)
EXTENDS Integers, Sequences, FiniteSets, TLC

VARIABLES
    \* ---- AppState / ProcessingSettings
    selectedDeviceID, hasInputPair, hasOutputPair,
    sampleRate, bufferSize, measuredLatencySamples, lastBufferSizeWhenMeasured,
    silenceBetweenFilesMs, outputFolderPath,
    files, currentFileIndex,
    isProcessing, isMeasuringLatency, isPreviewing, isTestingHardware,
    currentPlaybackBuffer, recordingBuffer, latencyCaptureBuffer,
    currentPreviewFileIndex, previewPlaylist,
    \* ---- MainComponent members
    playbackSamplePosition, recordingSamplePosition, targetRecordingSamples,
    isInProcessingGap, processingGapSamplesRemaining,
    isInPreviewGap, previewGapSamplesRemaining,
    impulseSent, capturedSamplesSinceImpulse, sinePhase,
    needsToSaveCurrentFile, needsToLoadNextFile, needsToCompleteLatencyMeasurement,
    \* ---- device layer and hardware loop (environment)
    deviceBlockSize, numInputChannels, numOutputChannels, loopGain, loopDelay, delayLine,
    \* ---- message thread position inside timerCallback, audio thread position
    \* ---- inside getNextAudioBlock, observables
    timerPc, routerPc, lastOutput, written, userOps, settingChanges,
    \* ---- what a processing callback in progress has decided to copy
    routerPlan,
    \* ---- arguments and result of a stand-alone trimLatency call
    trimArgs, trimResult,
    \* ---- settings and result of a stand-alone computation of the gap length
    gapCall,
    \* ---- arguments and result of a stand-alone findPeakPosition call
    peakCall

appVars == <<selectedDeviceID, hasInputPair, hasOutputPair, sampleRate, bufferSize,
             measuredLatencySamples, lastBufferSizeWhenMeasured, silenceBetweenFilesMs,
             outputFolderPath, files, currentFileIndex, isProcessing, isMeasuringLatency,
             isPreviewing, isTestingHardware, currentPlaybackBuffer, recordingBuffer,
             latencyCaptureBuffer, currentPreviewFileIndex, previewPlaylist>>

memberVars == <<playbackSamplePosition, recordingSamplePosition, targetRecordingSamples,
                isInProcessingGap, processingGapSamplesRemaining, isInPreviewGap,
                previewGapSamplesRemaining, impulseSent, capturedSamplesSinceImpulse,
                sinePhase, needsToSaveCurrentFile, needsToLoadNextFile,
                needsToCompleteLatencyMeasurement>>

envVars == <<deviceBlockSize, numInputChannels, numOutputChannels, loopGain, loopDelay,
             delayLine>>

obsVars == <<timerPc, routerPc, routerPlan, lastOutput, written, userOps,
             settingChanges>>

trimVars == <<trimArgs, trimResult>>

gapVars == <<gapCall, peakCall>>

vars == <<appVars, memberVars, envVars, obsVars, trimVars, gapVars>>

(***************************************************************************)
(* Program constants                                                       *)
(***************************************************************************)
ImpulseAmplitude == 10
RouterThreshold == 5
TimerThreshold == 1
CaptureSeconds == 5
PrepareRecordSeconds == 60
PreparePlaybackBlocks == 100
SafetyFactor == 4
StereoChannels == 2
NoInputGraceBuffers == 10
TestToneAmplitude == 3

(***************************************************************************)
(* Bounds of the model                                                     *)
(***************************************************************************)
MaxUserOps == 3
MaxSettingChanges == 1
MaxFiles == 2

(***************************************************************************)
(* Arithmetic and buffer helpers                                           *)
(***************************************************************************)
Abs(x) == IF x < 0 THEN -x ELSE x

jmin(a, b) == IF a < b THEN a ELSE b

jmax(a, b) == IF a > b THEN a ELSE b

\* C++ int division truncates toward zero
CDiv(a, b) == IF a >= 0 THEN a \div b ELSE -((-a) \div b)

Buf(ch, fr) == [numChannels |-> ch, frames |-> fr]

getNumSamples(buffer) == Len(buffer.frames)

ZeroFrame(ch) == [c \in 1..ch |-> 0]

\* AudioBuffer(ch, n) followed by clear()
ClearedBuffer(ch, n) == Buf(ch, [i \in 1..n |-> ZeroFrame(ch)])

Sample(buffer, ch, i) == buffer.frames[i + 1][ch + 1]

\* dest.copyFrom(c, destStart, src, c, srcStart, num) for both stereo channels
CopyStereo(dest, destStart, srcFrames, srcStart, num) ==
    [dest EXCEPT !.frames =
        [i \in 1..Len(dest.frames) |->
            IF i - 1 >= destStart /\ i - 1 < destStart + num
            THEN <<srcFrames[i - destStart + srcStart][1], srcFrames[i - destStart + srcStart][2]>>
            ELSE dest.frames[i]]]

(***************************************************************************)
(* trimLatency                                                             *)
(***************************************************************************)
\* a plan that starts one frame late
trimLatencyPlanLate(captured, latencySamples, originalLength) ==
    LET capturedFrames == getNumSamples(captured)
        startFrame == CDiv(latencySamples, captured.numChannels) + 1
        framesToCopy == IF startFrame + originalLength > capturedFrames
                        THEN jmax(0, capturedFrames - startFrame)
                        ELSE originalLength
    IN [startFrame |-> startFrame,
        framesToCopy |-> framesToCopy,
        copies |-> framesToCopy > 0 /\ startFrame >= 0]

\* a plan without the start-frame guard and without the shortfall clamp
trimLatencyPlanUnguarded(captured, latencySamples, originalLength) ==
    [startFrame |-> CDiv(latencySamples, captured.numChannels),
     framesToCopy |-> originalLength,
     copies |-> originalLength > 0]

\* the locals of trimLatency: start frame, frames to copy, whether copyFrom runs
trimLatencyPlan(captured, latencySamples, originalLength) ==
    LET numChannels == captured.numChannels
        capturedFrames == getNumSamples(captured)
        latencyFrames == CDiv(latencySamples, numChannels)
        startFrame == latencyFrames
        framesToCopy == IF startFrame + originalLength > capturedFrames
                        THEN jmax(0, capturedFrames - startFrame)
                        ELSE originalLength
    IN [startFrame |-> startFrame,
        framesToCopy |-> framesToCopy,
        copies |-> framesToCopy > 0 /\ startFrame >= 0]

\* the frame copyFrom reads at index i; outside the buffer it is whatever memory holds
ReadFrame(captured, i) ==
    IF i >= 0 /\ i < getNumSamples(captured)
    THEN captured.frames[i + 1]
    ELSE [c \in 1..captured.numChannels |-> ImpulseAmplitude - 1]

\* trimmed: the returned buffer; reads: the captured frame indices copyFrom reads
trimLatencyRun(captured, latencySamples, originalLength) ==
    LET p == trimLatencyPlan(captured, latencySamples, originalLength)
        n == captured.numChannels
    IN [trimmed |-> Buf(n, [i \in 1..originalLength |->
                        IF p.copies /\ i <= p.framesToCopy
                        THEN ReadFrame(captured, p.startFrame + i - 1)
                        ELSE ZeroFrame(n)]),
        reads |-> IF p.copies THEN p.startFrame..(p.startFrame + p.framesToCopy - 1) ELSE {}]

trimLatency(captured, latencySamples, originalLength) ==
    trimLatencyRun(captured, latencySamples, originalLength).trimmed

(***************************************************************************)
(* findPeakPosition                                                        *)
(***************************************************************************)
RECURSIVE PeakScan(_, _, _, _)
\* the double loop, flattened channel-major: k = ch * numSamples + i
PeakScan(buffer, k, maxValue, maxPosition) ==
    LET n == getNumSamples(buffer)
    IN IF k >= buffer.numChannels * n
       THEN [maxValue |-> maxValue, maxPosition |-> maxPosition]
       ELSE LET absValue == Abs(Sample(buffer, k \div n, k % n))
            IN IF absValue > maxValue
               THEN PeakScan(buffer, k + 1, absValue, k % n)
               ELSE PeakScan(buffer, k + 1, maxValue, maxPosition)

\* a detector that also reports a peak that only equals the threshold
findPeakPositionAtThreshold(buffer, threshold) ==
    LET r == PeakScan(buffer, 0, 0, -1)
    IN IF r.maxValue >= threshold THEN r.maxPosition ELSE -1

findPeakPosition(buffer, threshold) ==
    LET r == PeakScan(buffer, 0, 0, -1)
    IN IF r.maxValue > threshold THEN r.maxPosition ELSE -1

(***************************************************************************)
(* Environment: the disk, the devices, the hardware loop                   *)
(***************************************************************************)
\* folders an output path can name: "" is unset, "gone" does not exist, "ro" is not writable
Folders == {"", "out", "src", "ro", "gone"}

FolderExists(f) == f \in {"out", "src", "ro"}

FolderWritable(f) == f \in {"out", "src"}

\* files on disk: parent folder, whether the rate is 44.1 kHz, whether a reader can
\* be created when the take is loaded, and the decoded stereo frames
Disk ==
    [a |-> [dir |-> "src", validRate |-> TRUE, readable |-> TRUE, audio |-> <<<<2, 3>>, <<4, 1>>>>],
     b |-> [dir |-> "src", validRate |-> FALSE, readable |-> TRUE, audio |-> <<<<1, 1>>>>],
     c |-> [dir |-> "in2", validRate |-> TRUE, readable |-> TRUE, audio |-> <<<<3, 2>>>>],
     d |-> [dir |-> "src", validRate |-> TRUE, readable |-> FALSE, audio |-> <<>>]]

FileNames == DOMAIN Disk

\* AudioFile(file): loadMetadata sets invalidSampleRate for a rate other than 44.1 kHz
NewAudioFile(name) ==
    [id |-> name,
     status |-> IF Disk[name].validRate THEN "pending" ELSE "invalidSampleRate",
     isSelected |-> FALSE]

isValid(file) == Disk[file.id].validRate

\* devices: channel counts; "" is no selection
Devices ==
    [full |-> [inputChannelCount |-> 2, outputChannelCount |-> 2],
     outonly |-> [inputChannelCount |-> 0, outputChannelCount |-> 2],
     inonly |-> [inputChannelCount |-> 2, outputChannelCount |-> 0]]

SampleRates == {4, 5}

BlockSizes == {1, 2}

SilenceMsChoices == {0, 250}

\* a silence long enough for a gap of several blocks
LongSilenceMs == 750

LoopGains == {"unity", "atten", "open"}

Silence(n) == [i \in 1..n |-> <<0, 0>>]

\* what the loop does to a sample on its way back
LoopSample(s) ==
    CASE loopGain = "unity" -> s
      [] loopGain = "atten" -> CDiv(s * 3, 10)
      [] OTHER -> 0

\* the input block of a callback whose output block is out: the output stream
\* delayed by loopDelay frames
LoopInput(out) ==
    LET full == delayLine \o out
    IN [i \in 1..Len(out) |-> <<LoopSample(full[i][1]), LoopSample(full[i][2])>>]

LoopAdvance(out) ==
    LET full == delayLine \o out
    IN SubSeq(full, Len(full) - loopDelay + 1, Len(full))

canMeasureLatency == selectedDeviceID /= "" /\ hasInputPair /\ hasOutputPair

(***************************************************************************)
(* IEEE double arithmetic of the gap computation. A natural too wide for a *)
(* machine word is a sequence of limbs (digits in base LimbBase) or of     *)
(* bits, most significant first.                                           *)
(***************************************************************************)
DoubleMantissaBits == 53

LimbBits == 12

LimbBase == 2 ^ LimbBits

\* fraction limbs carried by the quotient ms / 1000.0 before it is rounded
WorkingLimbs == 6

\* Body at a value that is computed once
With(value, Body(_)) == CHOOSE result \in {Body(v) : v \in {value}} : TRUE

RECURSIVE Limbs(_)
Limbs(n) == IF n = 0 THEN <<>> ELSE Append(Limbs(n \div LimbBase), n % LimbBase)

RECURSIVE BitsValue(_)
BitsValue(b) ==
    IF b = <<>> THEN 0 ELSE 2 * BitsValue(SubSeq(b, 1, Len(b) - 1)) + b[Len(b)]

StripZeros(b) ==
    IF \A i \in 1..Len(b) : b[i] = 0 THEN <<>>
    ELSE LET first == CHOOSE i \in 1..Len(b) :
                          b[i] = 1 /\ \A j \in 1..(i - 1) : b[j] = 0
         IN SubSeq(b, first, Len(b))

BitsOfLimbs(a) ==
    SubSeq([i \in 1..(LimbBits * Len(a)) |->
               (a[(i - 1) \div LimbBits + 1]
                   \div (2 ^ (LimbBits - 1 - ((i - 1) % LimbBits)))) % 2],
           1, LimbBits * Len(a))

LimbsOfBits(b) ==
    LET pad == (LimbBits - (Len(b) % LimbBits)) % LimbBits
    IN With([i \in 1..pad |-> 0] \o b,
            LAMBDA padded :
                SubSeq([k \in 1..(Len(padded) \div LimbBits) |->
                           BitsValue(SubSeq(padded, LimbBits * (k - 1) + 1, LimbBits * k))],
                       1, Len(padded) \div LimbBits))

\* a * m for a machine-word m, by the schoolbook carry from the last limb
RECURSIVE LimbsTimesFrom(_, _, _, _)
LimbsTimesFrom(a, m, i, carry) ==
    IF i = 0 THEN Limbs(carry)
    ELSE Append(LimbsTimesFrom(a, m, i - 1, (a[i] * m + carry) \div LimbBase),
                (a[i] * m + carry) % LimbBase)

LimbsTimes(a, m) == LimbsTimesFrom(a, m, Len(a), 0)

\* a divided by a machine-word d, by long division from the first limb
RECURSIVE LimbsDividedFrom(_, _, _, _, _)
LimbsDividedFrom(a, d, i, rem, q) ==
    IF i > Len(a) THEN [q |-> q, r |-> rem]
    ELSE LimbsDividedFrom(a, d, i + 1, (rem * LimbBase + a[i]) % d,
                          Append(q, (rem * LimbBase + a[i]) \div d))

LimbsDividedBy(a, d) == LimbsDividedFrom(a, d, 1, 0, <<>>)

BitsPlusOne(b) ==
    IF \A i \in 1..Len(b) : b[i] = 1 THEN <<1>> \o [i \in 1..Len(b) |-> 0]
    ELSE LET last == CHOOSE i \in 1..Len(b) :
                         b[i] = 0 /\ \A j \in (i + 1)..Len(b) : b[j] = 1
         IN [i \in 1..Len(b) |-> IF i < last THEN b[i] ELSE IF i = last THEN 1 ELSE 0]

\* round-to-nearest-even of the real b + (a fraction that is non-zero iff sticky)
\* to DoubleMantissaBits significant bits: the value is mantissa * 2^exponent
RoundedToDouble(b, sticky) ==
    IF Len(b) <= DoubleMantissaBits
    THEN [mantissa |-> b, exponent |-> 0]
    ELSE LET kept == SubSeq(b, 1, DoubleMantissaBits)
             dropped == SubSeq(b, DoubleMantissaBits + 1, Len(b))
             half == dropped[1] = 1
             below == sticky \/ \E i \in 2..Len(dropped) : dropped[i] = 1
             up == half /\ (below \/ kept[DoubleMantissaBits] = 1)
         IN [mantissa |-> IF up THEN BitsPlusOne(kept) ELSE kept,
             exponent |-> Len(b) - DoubleMantissaBits]

\* ms / 1000.0 for an int ms >= 0: a double with WorkingLimbs limbs of fraction
QuotientByThousand(ms) ==
    With(LimbsDividedBy(Limbs(ms) \o [i \in 1..WorkingLimbs |-> 0], 1000),
         LAMBDA division :
             With(BitsOfLimbs(division.q),
                  LAMBDA bits :
                      With(StripZeros(bits),
                           LAMBDA significant :
                               RoundedToDouble(significant, division.r /= 0))))

\* quotient * rate for an integral double rate, exponent relative to the quotient's
ProductWithRate(quotient, rate) ==
    With(LimbsOfBits(quotient.mantissa),
         LAMBDA limbs :
             With(LimbsTimes(limbs, rate),
                  LAMBDA wide :
                      With(BitsOfLimbs(wide),
                           LAMBDA bits :
                               With(StripZeros(bits),
                                    LAMBDA significant :
                                        RoundedToDouble(significant, FALSE)))))

\* (juce::int64)((ms / 1000.0) * rate) for an int ms >= 0 and an integral double rate
GapSamplesOf(ms, rate) ==
    With(QuotientByThousand(ms),
         LAMBDA quotient :
             With(ProductWithRate(quotient, rate),
                  LAMBDA product :
                      LET fraction == LimbBits * WorkingLimbs
                                          - quotient.exponent - product.exponent
                          whole == Len(product.mantissa) - fraction
                      IN IF whole <= 0 THEN 0
                         ELSE BitsValue(SubSeq(product.mantissa, 1, whole))))

GapSamples == GapSamplesOf(silenceBetweenFilesMs, sampleRate)

(***************************************************************************)
(* RealTimeRouter: MainComponent::handleAudioCallback + getNextAudioBlock  *)
(* One action is one hardware block of deviceBlockSize frames.             *)
(***************************************************************************)
\* handleAudioCallback: inputBuffer for a callback whose input block is inp
InputBufferOf(inp) ==
    IF numInputChannels > 0 THEN Buf(numInputChannels, inp) ELSE Buf(0, <<>>)

\* the two logical output channels reach the hardware only when the device has them
ToHardware(out) ==
    IF numOutputChannels >= 2 THEN out ELSE Silence(deviceBlockSize)

\* what every callback leaves behind: the block sent and the loop advanced
RouterEmit(out) ==
    /\ lastOutput' = ToHardware(out)
    /\ delayLine' = LoopAdvance(ToHardware(out))

\* an impulse sent on the left output channel only
ImpulseBlockLeftOnly(n) == [i \in 1..n |-> IF i = 1 THEN <<ImpulseAmplitude, 0>> ELSE <<0, 0>>]

ImpulseBlock(n) == [i \in 1..n |-> IF i = 1 THEN <<ImpulseAmplitude, ImpulseAmplitude>> ELSE <<0, 0>>]

\* a capturing callback that reports the peak's frame index without the channel count
MeasureStepInFrames(inputBuffer, n) ==
    LET captureLen == getNumSamples(latencyCaptureBuffer)
        writePos == capturedSamplesSinceImpulse
        samplesToWrite == jmin(n, captureLen - writePos)
        capture == IF samplesToWrite > 0
                   THEN CopyStereo(latencyCaptureBuffer, writePos, inputBuffer.frames, 0, samplesToWrite)
                   ELSE latencyCaptureBuffer
        captured == capturedSamplesSinceImpulse + n
        peakPosition == findPeakPosition(capture, RouterThreshold)
    IN [capture |-> capture,
        captured |-> captured,
        done |-> peakPosition >= 0 \/ captured > sampleRate * CaptureSeconds,
        latency |-> IF peakPosition >= 0 THEN peakPosition ELSE -1,
        detected |-> peakPosition >= 0]

\* the capturing callback of a measurement (input present): capture, detect, time out
MeasureStep(inputBuffer, n) ==
    LET captureLen == getNumSamples(latencyCaptureBuffer)
        writePos == capturedSamplesSinceImpulse
        samplesToWrite == jmin(n, captureLen - writePos)
        capture == IF samplesToWrite > 0
                   THEN CopyStereo(latencyCaptureBuffer, writePos, inputBuffer.frames, 0, samplesToWrite)
                   ELSE latencyCaptureBuffer
        captured == capturedSamplesSinceImpulse + n
        peakPosition == findPeakPosition(capture, RouterThreshold)
    IN [capture |-> capture,
        captured |-> captured,
        done |-> peakPosition >= 0 \/ captured > sampleRate * CaptureSeconds,
        latency |-> IF peakPosition >= 0 THEN peakPosition * capture.numChannels ELSE -1,
        detected |-> peakPosition >= 0]

RouterMeasureSend ==
    /\ isMeasuringLatency
    /\ ~impulseSent
    /\ IF numOutputChannels >= 2 /\ hasOutputPair
       THEN /\ RouterEmit(ImpulseBlock(deviceBlockSize))
            /\ impulseSent' = TRUE
            /\ capturedSamplesSinceImpulse' = 0
            /\ latencyCaptureBuffer' = ClearedBuffer(StereoChannels, sampleRate * CaptureSeconds)
       ELSE /\ RouterEmit(Silence(deviceBlockSize))
            /\ UNCHANGED <<impulseSent, capturedSamplesSinceImpulse, latencyCaptureBuffer>>
    /\ UNCHANGED <<selectedDeviceID, hasInputPair, hasOutputPair, sampleRate,
                   bufferSize, measuredLatencySamples, lastBufferSizeWhenMeasured,
                   silenceBetweenFilesMs, outputFolderPath, files, currentFileIndex,
                   isProcessing, isMeasuringLatency, isPreviewing, isTestingHardware,
                   currentPlaybackBuffer, recordingBuffer, currentPreviewFileIndex,
                   previewPlaylist, playbackSamplePosition, recordingSamplePosition,
                   targetRecordingSamples, isInProcessingGap,
                   processingGapSamplesRemaining, isInPreviewGap,
                   previewGapSamplesRemaining, sinePhase, needsToSaveCurrentFile,
                   needsToLoadNextFile, needsToCompleteLatencyMeasurement,
                   deviceBlockSize, numInputChannels, numOutputChannels, loopGain,
                   loopDelay, timerPc, routerPc, written, userOps, settingChanges,
                   trimArgs, trimResult, gapCall, peakCall, routerPlan>>

RouterMeasureCapture ==
    /\ isMeasuringLatency
    /\ impulseSent
    /\ LET n == deviceBlockSize
           out == Silence(n)
           inputBuffer == InputBufferOf(LoopInput(ToHardware(out)))
       IN /\ RouterEmit(out)
          /\ IF inputBuffer.numChannels >= 2 /\ hasInputPair
             THEN LET m == MeasureStep(inputBuffer, n)
                  IN /\ latencyCaptureBuffer' = m.capture
                     /\ capturedSamplesSinceImpulse' = m.captured
                     /\ measuredLatencySamples' = IF m.done THEN m.latency ELSE measuredLatencySamples
                     /\ lastBufferSizeWhenMeasured' =
                           IF m.detected THEN bufferSize ELSE lastBufferSizeWhenMeasured
                     /\ needsToCompleteLatencyMeasurement' =
                           IF m.done THEN TRUE ELSE needsToCompleteLatencyMeasurement
                     /\ isMeasuringLatency' = ~m.done
             ELSE LET fail == capturedSamplesSinceImpulse > n * NoInputGraceBuffers
                  IN /\ capturedSamplesSinceImpulse' = capturedSamplesSinceImpulse + n
                     /\ measuredLatencySamples' = IF fail THEN -1 ELSE measuredLatencySamples
                     /\ needsToCompleteLatencyMeasurement' =
                           IF fail THEN TRUE ELSE needsToCompleteLatencyMeasurement
                     /\ isMeasuringLatency' = ~fail
                     /\ UNCHANGED <<latencyCaptureBuffer, lastBufferSizeWhenMeasured>>
    /\ UNCHANGED <<selectedDeviceID, hasInputPair, hasOutputPair, sampleRate,
                   bufferSize, silenceBetweenFilesMs, outputFolderPath, files,
                   currentFileIndex, isProcessing, isPreviewing, isTestingHardware,
                   currentPlaybackBuffer, recordingBuffer, currentPreviewFileIndex,
                   previewPlaylist, playbackSamplePosition, recordingSamplePosition,
                   targetRecordingSamples, isInProcessingGap,
                   processingGapSamplesRemaining, isInPreviewGap,
                   previewGapSamplesRemaining, impulseSent, sinePhase,
                   needsToSaveCurrentFile, needsToLoadNextFile, deviceBlockSize,
                   numInputChannels, numOutputChannels, loopGain, loopDelay, timerPc,
                   routerPc, written, userOps, settingChanges, trimArgs, trimResult,
                   gapCall, peakCall, routerPlan>>

\* the 1 kHz tone, one period of ToneTable per Len(ToneTable) frames
ToneTable == <<0, TestToneAmplitude, 0, -TestToneAmplitude>>

ToneBlock(phase, n) ==
    [i \in 1..n |-> LET s == ToneTable[((phase + i - 1) % Len(ToneTable)) + 1] IN <<s, s>>]

RouterHardwareTest ==
    /\ ~isMeasuringLatency
    /\ isTestingHardware
    /\ IF numOutputChannels >= 2 /\ hasOutputPair
       THEN /\ RouterEmit(ToneBlock(sinePhase, deviceBlockSize))
            /\ sinePhase' = (sinePhase + deviceBlockSize) % Len(ToneTable)
       ELSE /\ RouterEmit(Silence(deviceBlockSize))
            /\ UNCHANGED sinePhase
    /\ UNCHANGED <<selectedDeviceID, hasInputPair, hasOutputPair, sampleRate,
                   bufferSize, measuredLatencySamples, lastBufferSizeWhenMeasured,
                   silenceBetweenFilesMs, outputFolderPath, files, currentFileIndex,
                   isProcessing, isMeasuringLatency, isPreviewing, isTestingHardware,
                   currentPlaybackBuffer, recordingBuffer, latencyCaptureBuffer,
                   currentPreviewFileIndex, previewPlaylist, playbackSamplePosition,
                   recordingSamplePosition, targetRecordingSamples, isInProcessingGap,
                   processingGapSamplesRemaining, isInPreviewGap,
                   previewGapSamplesRemaining, impulseSent, capturedSamplesSinceImpulse,
                   needsToSaveCurrentFile, needsToLoadNextFile,
                   needsToCompleteLatencyMeasurement, deviceBlockSize, numInputChannels,
                   numOutputChannels, loopGain, loopDelay, timerPc, routerPc, written,
                   userOps, settingChanges, trimArgs, trimResult, gapCall, peakCall,
                   routerPlan>>

\* the block played from currentPlaybackBuffer at the playback cursor, silence after it
PlayBlock(n) ==
    LET totalSamples == getNumSamples(currentPlaybackBuffer)
        samplesToPlay == IF playbackSamplePosition < totalSamples
                         THEN jmin(n, totalSamples - playbackSamplePosition)
                         ELSE 0
    IN [i \in 1..n |->
          IF i <= samplesToPlay
          THEN <<Sample(currentPlaybackBuffer, 0, playbackSamplePosition + i - 1),
                 Sample(currentPlaybackBuffer, 1, playbackSamplePosition + i - 1)>>
          ELSE <<0, 0>>]

SamplesToPlay(n) ==
    IF playbackSamplePosition < getNumSamples(currentPlaybackBuffer)
    THEN jmin(n, getNumSamples(currentPlaybackBuffer) - playbackSamplePosition)
    ELSE 0

\* a recording step that stops capturing once the source has been played out
RecordStepWhileSourceLasts(inputBuffer, n) ==
    LET capacity == getNumSamples(recordingBuffer)
        samplesToRecord == jmin(n, capacity - recordingSamplePosition)
    IN IF /\ recordingSamplePosition < capacity /\ samplesToRecord > 0
          /\ inputBuffer.numChannels >= 2
          /\ playbackSamplePosition < getNumSamples(currentPlaybackBuffer)
       THEN [buffer |-> CopyStereo(recordingBuffer, recordingSamplePosition,
                                   inputBuffer.frames, 0, samplesToRecord),
             position |-> recordingSamplePosition + samplesToRecord,
             wrote |-> recordingSamplePosition..(recordingSamplePosition + samplesToRecord - 1)]
       ELSE [buffer |-> recordingBuffer, position |-> recordingSamplePosition, wrote |-> {}]

\* the "RECORDING: Capture input" step shared by Playing and Gap
RecordStep(inputBuffer, n) ==
    LET capacity == getNumSamples(recordingBuffer)
        samplesToRecord == jmin(n, capacity - recordingSamplePosition)
    IN IF recordingSamplePosition < capacity /\ samplesToRecord > 0 /\ inputBuffer.numChannels >= 2
       THEN [buffer |-> CopyStereo(recordingBuffer, recordingSamplePosition,
                                   inputBuffer.frames, 0, samplesToRecord),
             position |-> recordingSamplePosition + samplesToRecord,
             wrote |-> recordingSamplePosition..(recordingSamplePosition + samplesToRecord - 1)]
       ELSE [buffer |-> recordingBuffer, position |-> recordingSamplePosition, wrote |-> {}]

\* a Gap step that takes the whole block off the counter
GapRemainingLessBlock(n, remaining) == remaining - n

\* samplesToSilence = jmin(numSamples, remaining); remaining -= samplesToSilence
GapRemainingAfter(n, remaining) == remaining - jmin(n, remaining)

RouterProcessing ==
    /\ ~isMeasuringLatency
    /\ ~isTestingHardware
    /\ isProcessing
    /\ LET n == deviceBlockSize
           active == numOutputChannels >= 2 /\ numInputChannels >= 2
                     /\ hasOutputPair /\ hasInputPair
           out == IF active /\ ~isInProcessingGap THEN PlayBlock(n) ELSE Silence(n)
           inputBuffer == InputBufferOf(LoopInput(ToHardware(out)))
           r == RecordStep(inputBuffer, n)
       IN /\ RouterEmit(out)
          /\ IF ~active
             THEN UNCHANGED <<playbackSamplePosition, recordingSamplePosition, recordingBuffer,
                              isInProcessingGap, processingGapSamplesRemaining,
                              needsToSaveCurrentFile>>
             ELSE IF isInProcessingGap
             THEN LET remaining == GapRemainingAfter(n, processingGapSamplesRemaining)
                  IN /\ processingGapSamplesRemaining' = remaining
                     /\ recordingBuffer' = r.buffer
                     /\ recordingSamplePosition' = r.position
                     /\ isInProcessingGap' = (remaining > 0)
                     /\ needsToSaveCurrentFile' =
                           IF remaining <= 0 THEN TRUE ELSE needsToSaveCurrentFile
                     /\ UNCHANGED playbackSamplePosition
             ELSE LET finished == r.position >= targetRecordingSamples
                  IN /\ recordingBuffer' = r.buffer
                     /\ playbackSamplePosition' =
                           IF finished THEN 0 ELSE playbackSamplePosition + SamplesToPlay(n)
                     /\ recordingSamplePosition' = IF finished THEN 0 ELSE r.position
                     /\ processingGapSamplesRemaining' =
                           IF finished THEN GapSamples ELSE processingGapSamplesRemaining
                     /\ isInProcessingGap' =
                           (finished /\ processingGapSamplesRemaining' > 0)
                     /\ needsToSaveCurrentFile' =
                           IF finished /\ processingGapSamplesRemaining' <= 0
                           THEN TRUE
                           ELSE needsToSaveCurrentFile
    /\ UNCHANGED <<selectedDeviceID, hasInputPair, hasOutputPair, sampleRate,
                   bufferSize, measuredLatencySamples, lastBufferSizeWhenMeasured,
                   silenceBetweenFilesMs, outputFolderPath, files, currentFileIndex,
                   isProcessing, isMeasuringLatency, isPreviewing, isTestingHardware,
                   currentPlaybackBuffer, latencyCaptureBuffer, currentPreviewFileIndex,
                   previewPlaylist, targetRecordingSamples, isInPreviewGap,
                   previewGapSamplesRemaining, impulseSent, capturedSamplesSinceImpulse,
                   sinePhase, needsToLoadNextFile, needsToCompleteLatencyMeasurement,
                   deviceBlockSize, numInputChannels, numOutputChannels, loopGain,
                   loopDelay, timerPc, routerPc, written, userOps, settingChanges,
                   trimArgs, trimResult, gapCall, peakCall, routerPlan>>

\* the preview branch once the callback has decided to take it
RouterPreviewBody ==
    LET n == deviceBlockSize
        active == numOutputChannels >= 2 /\ hasOutputPair
        totalSamples == getNumSamples(currentPlaybackBuffer)
        playing == active /\ ~isInPreviewGap /\ playbackSamplePosition < totalSamples
        position == playbackSamplePosition + SamplesToPlay(n)
        finished == position >= totalSamples
    IN /\ RouterEmit(IF playing THEN PlayBlock(n) ELSE Silence(n))
       /\ IF ~active
          THEN UNCHANGED <<playbackSamplePosition, isInPreviewGap, previewGapSamplesRemaining,
                           needsToLoadNextFile, isPreviewing>>
          ELSE IF isInPreviewGap
          THEN LET remaining == GapRemainingAfter(n, previewGapSamplesRemaining)
               IN /\ previewGapSamplesRemaining' = remaining
                  /\ isInPreviewGap' = (remaining > 0)
                  /\ needsToLoadNextFile' = IF remaining <= 0 THEN TRUE ELSE needsToLoadNextFile
                  /\ UNCHANGED <<playbackSamplePosition, isPreviewing>>
          ELSE IF playing
          THEN /\ playbackSamplePosition' = IF finished THEN 0 ELSE position
               /\ previewGapSamplesRemaining' =
                     IF finished THEN GapSamples ELSE previewGapSamplesRemaining
               /\ isInPreviewGap' = (finished /\ previewGapSamplesRemaining' > 0)
               /\ needsToLoadNextFile' =
                     IF finished /\ previewGapSamplesRemaining' <= 0
                     THEN TRUE
                     ELSE needsToLoadNextFile
               /\ UNCHANGED isPreviewing
          ELSE /\ isPreviewing' = FALSE
               /\ UNCHANGED <<playbackSamplePosition, isInPreviewGap,
                              previewGapSamplesRemaining, needsToLoadNextFile>>

RouterPreview ==
    /\ ~isMeasuringLatency
    /\ ~isTestingHardware
    /\ ~isProcessing
    /\ isPreviewing
    /\ RouterPreviewBody
    /\ UNCHANGED <<selectedDeviceID, hasInputPair, hasOutputPair, sampleRate,
                   bufferSize, measuredLatencySamples, lastBufferSizeWhenMeasured,
                   silenceBetweenFilesMs, outputFolderPath, files, currentFileIndex,
                   isProcessing, isMeasuringLatency, isTestingHardware,
                   currentPlaybackBuffer, recordingBuffer, latencyCaptureBuffer,
                   currentPreviewFileIndex, previewPlaylist, recordingSamplePosition,
                   targetRecordingSamples, isInProcessingGap,
                   processingGapSamplesRemaining, impulseSent,
                   capturedSamplesSinceImpulse, sinePhase, needsToSaveCurrentFile,
                   needsToCompleteLatencyMeasurement, deviceBlockSize, numInputChannels,
                   numOutputChannels, loopGain, loopDelay, timerPc, routerPc, written,
                   userOps, settingChanges, trimArgs, trimResult, gapCall, peakCall,
                   routerPlan>>

\* an idle callback that resumes a preview whose playlist is still set
RouterIdleResumesPreview ==
    /\ ~isMeasuringLatency
    /\ ~isTestingHardware
    /\ ~isProcessing
    /\ ~isPreviewing
    /\ RouterEmit(Silence(deviceBlockSize))
    /\ isPreviewing' = (previewPlaylist /= <<>>)
    /\ UNCHANGED <<selectedDeviceID, hasInputPair, hasOutputPair, sampleRate,
                   bufferSize, measuredLatencySamples, lastBufferSizeWhenMeasured,
                   silenceBetweenFilesMs, outputFolderPath, files, currentFileIndex,
                   isProcessing, isMeasuringLatency, isTestingHardware,
                   currentPlaybackBuffer, recordingBuffer, latencyCaptureBuffer,
                   currentPreviewFileIndex, previewPlaylist, playbackSamplePosition,
                   recordingSamplePosition, targetRecordingSamples, isInProcessingGap,
                   processingGapSamplesRemaining, isInPreviewGap,
                   previewGapSamplesRemaining, impulseSent, capturedSamplesSinceImpulse,
                   sinePhase, needsToSaveCurrentFile, needsToLoadNextFile,
                   needsToCompleteLatencyMeasurement, deviceBlockSize, numInputChannels,
                   numOutputChannels, loopGain, loopDelay, timerPc, routerPc, written,
                   userOps, settingChanges, trimArgs, trimResult, gapCall, peakCall,
                   routerPlan>>

\* an idle callback that drops the pending one-shot flags
RouterIdleDropsFlags ==
    /\ ~isMeasuringLatency
    /\ ~isTestingHardware
    /\ ~isProcessing
    /\ ~isPreviewing
    /\ RouterEmit(Silence(deviceBlockSize))
    /\ needsToSaveCurrentFile' = FALSE
    /\ needsToLoadNextFile' = FALSE
    /\ UNCHANGED <<selectedDeviceID, hasInputPair, hasOutputPair, sampleRate,
                   bufferSize, measuredLatencySamples, lastBufferSizeWhenMeasured,
                   silenceBetweenFilesMs, outputFolderPath, files, currentFileIndex,
                   isProcessing, isMeasuringLatency, isPreviewing, isTestingHardware,
                   currentPlaybackBuffer, recordingBuffer, latencyCaptureBuffer,
                   currentPreviewFileIndex, previewPlaylist, playbackSamplePosition,
                   recordingSamplePosition, targetRecordingSamples, isInProcessingGap,
                   processingGapSamplesRemaining, isInPreviewGap,
                   previewGapSamplesRemaining, impulseSent, capturedSamplesSinceImpulse,
                   sinePhase, needsToCompleteLatencyMeasurement, deviceBlockSize,
                   numInputChannels, numOutputChannels, loopGain, loopDelay, timerPc,
                   routerPc, written, userOps, settingChanges, trimArgs, trimResult,
                   gapCall, peakCall, routerPlan>>

RouterIdle ==
    /\ ~isMeasuringLatency
    /\ ~isTestingHardware
    /\ ~isProcessing
    /\ ~isPreviewing
    /\ RouterEmit(Silence(deviceBlockSize))
    /\ UNCHANGED <<selectedDeviceID, hasInputPair, hasOutputPair, sampleRate,
                   bufferSize, measuredLatencySamples, lastBufferSizeWhenMeasured,
                   silenceBetweenFilesMs, outputFolderPath, files, currentFileIndex,
                   isProcessing, isMeasuringLatency, isPreviewing, isTestingHardware,
                   currentPlaybackBuffer, recordingBuffer, latencyCaptureBuffer,
                   currentPreviewFileIndex, previewPlaylist, playbackSamplePosition,
                   recordingSamplePosition, targetRecordingSamples, isInProcessingGap,
                   processingGapSamplesRemaining, isInPreviewGap,
                   previewGapSamplesRemaining, impulseSent, capturedSamplesSinceImpulse,
                   sinePhase, needsToSaveCurrentFile, needsToLoadNextFile,
                   needsToCompleteLatencyMeasurement, deviceBlockSize, numInputChannels,
                   numOutputChannels, loopGain, loopDelay, timerPc, routerPc, written,
                   userOps, settingChanges, trimArgs, trimResult, gapCall, peakCall,
                   routerPlan>>

getNextAudioBlock ==
    \/ RouterMeasureSend
    \/ RouterMeasureCapture
    \/ RouterHardwareTest
    \/ RouterProcessing
    \/ RouterPreview
    \/ RouterIdle

(***************************************************************************)
(* BatchProcessingSequencer helpers                                        *)
(***************************************************************************)
\* a recording length without the safety margin
RecordingFramesNoMargin(sourceFrames, latencyFrames) ==
    sourceFrames + latencyFrames

\* sourceFrames + latencyFrames + (latencyFrames * 4)
RecordingFrames(sourceFrames, latencyFrames) ==
    sourceFrames + latencyFrames + (latencyFrames * SafetyFactor)

WithStatus(fs, index, status) ==
    [fs EXCEPT ![index + 1].status = status]

\* loadNextFileForProcessing on queue fs at index: ok is the return value
loadNextFileForProcessing(fs, index) ==
    IF ~(index >= 0 /\ index < Len(fs))
    THEN [ok |-> FALSE, files |-> fs, playback |-> currentPlaybackBuffer,
          recording |-> recordingBuffer, target |-> targetRecordingSamples]
    ELSE IF ~isValid(fs[index + 1]) \/ ~Disk[fs[index + 1].id].readable
    THEN [ok |-> FALSE, files |-> WithStatus(fs, index, "failed"),
          playback |-> currentPlaybackBuffer, recording |-> recordingBuffer,
          target |-> targetRecordingSamples]
    ELSE LET audio == Disk[fs[index + 1].id].audio
             sourceFrames == Len(audio)
             latencyFrames == CDiv(measuredLatencySamples, StereoChannels)
             recordingFrames == RecordingFrames(sourceFrames, latencyFrames)
         IN [ok |-> TRUE, files |-> WithStatus(fs, index, "processing"),
             playback |-> Buf(StereoChannels, audio),
             recording |-> ClearedBuffer(StereoChannels, recordingFrames),
             target |-> recordingFrames]

\* generateOutputFile: <outputFolder>/<baseName><postfix><extension>, postfix empty
generateOutputFile(file) == <<outputFolderPath, file.id>>

SourcePath(file) == <<Disk[file.id].dir, file.id>>

\* a save that on failure returns without touching the file's status
saveCurrentRecordingKeepsStatus ==
    IF currentFileIndex >= Len(files)
    THEN [files |-> files, written |-> written, saved |-> FALSE]
    ELSE LET sourceFile == files[currentFileIndex + 1]
             originalLength == getNumSamples(currentPlaybackBuffer)
             trimmed == trimLatency(recordingBuffer, measuredLatencySamples, originalLength)
             outputFile == generateOutputFile(sourceFile)
         IN IF ~FolderWritable(outputFolderPath)
            THEN [files |-> files, written |-> written, saved |-> FALSE]
            ELSE [files |-> WithStatus(files, currentFileIndex, "completed"),
                  written |-> [p \in DOMAIN written \cup {outputFile} |->
                                  IF p = outputFile THEN trimmed ELSE written[p]],
                  saved |-> TRUE]

\* saveCurrentRecording: the queue and the files written afterwards
saveCurrentRecording ==
    IF currentFileIndex >= Len(files)
    THEN [files |-> files, written |-> written, saved |-> FALSE]
    ELSE LET sourceFile == files[currentFileIndex + 1]
             originalLength == getNumSamples(currentPlaybackBuffer)
             trimmed == trimLatency(recordingBuffer, measuredLatencySamples, originalLength)
             outputFile == generateOutputFile(sourceFile)
         IN IF ~FolderWritable(outputFolderPath)
            THEN [files |-> WithStatus(files, currentFileIndex, "failed"),
                  written |-> written, saved |-> FALSE]
            ELSE [files |-> WithStatus(files, currentFileIndex, "completed"),
                  written |-> [p \in DOMAIN written \cup {outputFile} |->
                                  IF p = outputFile THEN trimmed ELSE written[p]],
                  saved |-> TRUE]

validateOutputFolder ==
    /\ FolderExists(outputFolderPath)
    /\ FolderWritable(outputFolderPath)
    /\ \A i \in 1..Len(files) : Disk[files[i].id].dir /= outputFolderPath

\* loadNextFileForPreview at index: ok and the playback buffer afterwards
loadNextFileForPreview(index) ==
    IF ~(index >= 0 /\ index < Len(previewPlaylist))
    THEN [ok |-> FALSE, playback |-> currentPlaybackBuffer]
    ELSE LET fileID == previewPlaylist[index + 1]
             found == {i \in 1..Len(files) : files[i].id = fileID}
         IN IF found = {} \/ ~Disk[fileID].validRate \/ ~Disk[fileID].readable
            THEN [ok |-> FALSE, playback |-> currentPlaybackBuffer]
            ELSE [ok |-> TRUE, playback |-> Buf(StereoChannels, Disk[fileID].audio)]

(***************************************************************************)
(* timerCallback, one step per flag handler; timerPc is the position of    *)
(* the message thread inside it (0: not in the callback)                   *)
(***************************************************************************)
\* lines 537-566: first "measurement complete" handler
TimerMeasurementComplete ==
    /\ timerPc = 0
    /\ timerPc' = 1
    /\ needsToCompleteLatencyMeasurement' = FALSE
    /\ UNCHANGED <<selectedDeviceID, hasInputPair, hasOutputPair, sampleRate,
                   bufferSize, measuredLatencySamples, lastBufferSizeWhenMeasured,
                   silenceBetweenFilesMs, outputFolderPath, files, currentFileIndex,
                   isProcessing, isMeasuringLatency, isPreviewing, isTestingHardware,
                   currentPlaybackBuffer, recordingBuffer, latencyCaptureBuffer,
                   currentPreviewFileIndex, previewPlaylist, playbackSamplePosition,
                   recordingSamplePosition, targetRecordingSamples, isInProcessingGap,
                   processingGapSamplesRemaining, isInPreviewGap,
                   previewGapSamplesRemaining, impulseSent, capturedSamplesSinceImpulse,
                   sinePhase, needsToSaveCurrentFile, needsToLoadNextFile,
                   deviceBlockSize, numInputChannels, numOutputChannels, loopGain,
                   loopDelay, delayLine, routerPc, lastOutput, written, userOps,
                   settingChanges, trimArgs, trimResult, gapCall, peakCall, routerPlan>>

\* lines 568-629: "take finished" handler
TimerSave ==
    /\ timerPc = 1
    /\ timerPc' = 2
    /\ IF ~needsToSaveCurrentFile
       THEN UNCHANGED <<needsToSaveCurrentFile, files, written, currentFileIndex,
                           currentPlaybackBuffer, recordingBuffer, targetRecordingSamples,
                           playbackSamplePosition, recordingSamplePosition, isInProcessingGap,
                           processingGapSamplesRemaining, isProcessing>>
       ELSE LET s == saveCurrentRecording
                index == currentFileIndex + 1
                l == loadNextFileForProcessing(s.files, index)
            IN /\ written' = s.written
               /\ currentFileIndex' = index
               /\ IF index < Len(files)
                  THEN /\ files' = l.files
                       /\ currentPlaybackBuffer' = l.playback
                       /\ recordingBuffer' = l.recording
                       /\ targetRecordingSamples' = l.target
                       /\ needsToSaveCurrentFile' = ~l.ok
                       /\ IF l.ok
                          THEN /\ playbackSamplePosition' = 0
                               /\ recordingSamplePosition' = 0
                               /\ isInProcessingGap' = FALSE
                               /\ processingGapSamplesRemaining' = 0
                               /\ isProcessing' = TRUE
                          ELSE UNCHANGED <<playbackSamplePosition, recordingSamplePosition,
                                           isInProcessingGap, processingGapSamplesRemaining,
                                           isProcessing>>
                  ELSE /\ files' = s.files
                       /\ needsToSaveCurrentFile' = FALSE
                       /\ isProcessing' = FALSE
                       /\ UNCHANGED <<currentPlaybackBuffer, recordingBuffer,
                                      targetRecordingSamples, playbackSamplePosition,
                                      recordingSamplePosition, isInProcessingGap,
                                      processingGapSamplesRemaining>>
    /\ UNCHANGED <<selectedDeviceID, hasInputPair, hasOutputPair, sampleRate,
                   bufferSize, measuredLatencySamples, lastBufferSizeWhenMeasured,
                   silenceBetweenFilesMs, outputFolderPath, isMeasuringLatency,
                   isPreviewing, isTestingHardware, latencyCaptureBuffer,
                   currentPreviewFileIndex, previewPlaylist, isInPreviewGap,
                   previewGapSamplesRemaining, impulseSent, capturedSamplesSinceImpulse,
                   sinePhase, needsToLoadNextFile, needsToCompleteLatencyMeasurement,
                   deviceBlockSize, numInputChannels, numOutputChannels, loopGain,
                   loopDelay, delayLine, routerPc, lastOutput, userOps, settingChanges,
                   trimArgs, trimResult, gapCall, peakCall, routerPlan>>

\* a preview-load handler that on exhaustion sets the index to 0 rather than -1
TimerPreviewLoadRestartsAtZero ==
    /\ timerPc = 2
    /\ timerPc' = 3
    /\ IF ~needsToLoadNextFile
       THEN UNCHANGED <<needsToLoadNextFile, currentPreviewFileIndex, currentPlaybackBuffer,
                           playbackSamplePosition, isInPreviewGap, isPreviewing>>
       ELSE LET index == currentPreviewFileIndex + 1
                l == loadNextFileForPreview(index)
            IN IF index < Len(previewPlaylist)
               THEN /\ currentPreviewFileIndex' = index
                    /\ currentPlaybackBuffer' = l.playback
                    /\ needsToLoadNextFile' = ~l.ok
                    /\ IF l.ok
                       THEN /\ playbackSamplePosition' = 0
                            /\ isInPreviewGap' = FALSE
                            /\ isPreviewing' = TRUE
                       ELSE UNCHANGED <<playbackSamplePosition, isInPreviewGap, isPreviewing>>
               ELSE /\ currentPreviewFileIndex' = 0
                    /\ needsToLoadNextFile' = TRUE
                    /\ UNCHANGED <<currentPlaybackBuffer, playbackSamplePosition,
                                   isInPreviewGap, isPreviewing>>
    /\ UNCHANGED <<selectedDeviceID, hasInputPair, hasOutputPair, sampleRate,
                   bufferSize, measuredLatencySamples, lastBufferSizeWhenMeasured,
                   silenceBetweenFilesMs, outputFolderPath, files, currentFileIndex,
                   isProcessing, isMeasuringLatency, isTestingHardware, recordingBuffer,
                   latencyCaptureBuffer, previewPlaylist, recordingSamplePosition,
                   targetRecordingSamples, isInProcessingGap,
                   processingGapSamplesRemaining, previewGapSamplesRemaining,
                   impulseSent, capturedSamplesSinceImpulse, sinePhase,
                   needsToSaveCurrentFile, needsToCompleteLatencyMeasurement,
                   deviceBlockSize, numInputChannels, numOutputChannels, loopGain,
                   loopDelay, delayLine, routerPc, lastOutput, written, userOps,
                   settingChanges, trimArgs, trimResult, gapCall, peakCall, routerPlan>>

\* lines 631-659: "need next preview file" handler
TimerPreviewLoad ==
    /\ timerPc = 2
    /\ timerPc' = 3
    /\ IF ~needsToLoadNextFile
       THEN UNCHANGED <<needsToLoadNextFile, currentPreviewFileIndex, currentPlaybackBuffer,
                           playbackSamplePosition, isInPreviewGap, isPreviewing>>
       ELSE LET index == currentPreviewFileIndex + 1
                l == loadNextFileForPreview(index)
            IN IF index < Len(previewPlaylist)
               THEN /\ currentPreviewFileIndex' = index
                    /\ currentPlaybackBuffer' = l.playback
                    /\ needsToLoadNextFile' = ~l.ok
                    /\ IF l.ok
                       THEN /\ playbackSamplePosition' = 0
                            /\ isInPreviewGap' = FALSE
                            /\ isPreviewing' = TRUE
                       ELSE UNCHANGED <<playbackSamplePosition, isInPreviewGap, isPreviewing>>
               ELSE /\ currentPreviewFileIndex' = -1
                    /\ needsToLoadNextFile' = TRUE
                    /\ UNCHANGED <<currentPlaybackBuffer, playbackSamplePosition,
                                   isInPreviewGap, isPreviewing>>
    /\ UNCHANGED <<selectedDeviceID, hasInputPair, hasOutputPair, sampleRate,
                   bufferSize, measuredLatencySamples, lastBufferSizeWhenMeasured,
                   silenceBetweenFilesMs, outputFolderPath, files, currentFileIndex,
                   isProcessing, isMeasuringLatency, isTestingHardware, recordingBuffer,
                   latencyCaptureBuffer, previewPlaylist, recordingSamplePosition,
                   targetRecordingSamples, isInProcessingGap,
                   processingGapSamplesRemaining, previewGapSamplesRemaining,
                   impulseSent, capturedSamplesSinceImpulse, sinePhase,
                   needsToSaveCurrentFile, needsToCompleteLatencyMeasurement,
                   deviceBlockSize, numInputChannels, numOutputChannels, loopGain,
                   loopDelay, delayLine, routerPc, lastOutput, written, userOps,
                   settingChanges, trimArgs, trimResult, gapCall, peakCall, routerPlan>>

\* lines 661-710: second "measurement complete" handler, then the progress update
TimerMeasurementCompleteAgain ==
    /\ timerPc = 3
    /\ timerPc' = 0
    /\ IF ~needsToCompleteLatencyMeasurement
       THEN UNCHANGED <<needsToCompleteLatencyMeasurement, measuredLatencySamples,
                           lastBufferSizeWhenMeasured, latencyCaptureBuffer>>
       ELSE LET peakPosition == findPeakPosition(latencyCaptureBuffer, TimerThreshold)
            IN /\ needsToCompleteLatencyMeasurement' = FALSE
               /\ measuredLatencySamples' =
                     IF peakPosition >= 0 THEN peakPosition * 2 ELSE measuredLatencySamples
               /\ lastBufferSizeWhenMeasured' =
                     IF peakPosition >= 0 THEN bufferSize ELSE lastBufferSizeWhenMeasured
               /\ latencyCaptureBuffer' =
                     ClearedBuffer(latencyCaptureBuffer.numChannels,
                                   getNumSamples(latencyCaptureBuffer))
    /\ UNCHANGED <<selectedDeviceID, hasInputPair, hasOutputPair, sampleRate,
                   bufferSize, silenceBetweenFilesMs, outputFolderPath, files,
                   currentFileIndex, isProcessing, isMeasuringLatency, isPreviewing,
                   isTestingHardware, currentPlaybackBuffer, recordingBuffer,
                   currentPreviewFileIndex, previewPlaylist, playbackSamplePosition,
                   recordingSamplePosition, targetRecordingSamples, isInProcessingGap,
                   processingGapSamplesRemaining, isInPreviewGap,
                   previewGapSamplesRemaining, impulseSent, capturedSamplesSinceImpulse,
                   sinePhase, needsToSaveCurrentFile, needsToLoadNextFile,
                   deviceBlockSize, numInputChannels, numOutputChannels, loopGain,
                   loopDelay, delayLine, routerPc, lastOutput, written, userOps,
                   settingChanges, trimArgs, trimResult, gapCall, peakCall, routerPlan>>

timerCallback ==
    \/ TimerMeasurementComplete
    \/ TimerSave
    \/ TimerPreviewLoad
    \/ TimerMeasurementCompleteAgain

(***************************************************************************)
(* Message-thread operations. They run between timer callbacks             *)
(* (timerPc = 0); userOps counts them.                                     *)
(***************************************************************************)
UserOp ==
    /\ timerPc = 0
    /\ userOps < MaxUserOps
    /\ userOps' = userOps + 1

\* a change of the settings, the device or the file list is one of the operations
SettingOp ==
    /\ UserOp
    /\ settingChanges < MaxSettingChanges
    /\ settingChanges' = settingChanges + 1

\* setSize(2, n) without keepExistingContent: same size keeps the memory, a new
\* size is fresh memory whose samples are fill
Resized(buffer, n, fill) ==
    IF buffer.numChannels = StereoChannels /\ getNumSamples(buffer) = n
    THEN buffer
    ELSE Buf(StereoChannels, [i \in 1..n |-> <<fill, fill>>])

\* what uninitialised buffer memory can hold
FreshMemory == {0, ImpulseAmplitude - 1}

\* configureAudioDevice, with the prepareToPlay the reopened device triggers; rate is
\* settings.sampleRate on entry
configureAudioDevice(deviceID, inputPair, outputPair, rate) ==
    IF deviceID = ""
    THEN UNCHANGED <<deviceBlockSize, numInputChannels, numOutputChannels,
                     currentPlaybackBuffer, recordingBuffer, latencyCaptureBuffer>>
    ELSE /\ deviceBlockSize' = bufferSize
         /\ numInputChannels' = IF inputPair THEN StereoChannels ELSE 0
         /\ numOutputChannels' = IF outputPair THEN StereoChannels ELSE 0
         /\ \E fill \in FreshMemory :
               /\ currentPlaybackBuffer' =
                     Resized(currentPlaybackBuffer, bufferSize * PreparePlaybackBlocks, fill)
               /\ recordingBuffer' =
                     Resized(recordingBuffer, rate * PrepareRecordSeconds, fill)
               /\ latencyCaptureBuffer' =
                     Resized(latencyCaptureBuffer, rate * CaptureSeconds, fill)

\* line 922: a configuration that went through invalidates the measurement
LatencyAfterConfigure(deviceID) ==
    IF deviceID = "" THEN measuredLatencySamples ELSE -1

selectDevice(deviceID) ==
    /\ SettingOp
    /\ selectedDeviceID' = deviceID
    /\ hasInputPair' = (Devices[deviceID].inputChannelCount >= 2)
    /\ hasOutputPair' = (Devices[deviceID].outputChannelCount >= 2)
    /\ configureAudioDevice(deviceID, Devices[deviceID].inputChannelCount >= 2,
                            Devices[deviceID].outputChannelCount >= 2, sampleRate)
    /\ measuredLatencySamples' = LatencyAfterConfigure(deviceID)
    /\ UNCHANGED <<sampleRate, bufferSize, lastBufferSizeWhenMeasured,
                   silenceBetweenFilesMs, outputFolderPath, files, currentFileIndex,
                   isProcessing, isMeasuringLatency, isPreviewing, isTestingHardware,
                   currentPreviewFileIndex, previewPlaylist, playbackSamplePosition,
                   recordingSamplePosition, targetRecordingSamples, isInProcessingGap,
                   processingGapSamplesRemaining, isInPreviewGap,
                   previewGapSamplesRemaining, impulseSent, capturedSamplesSinceImpulse,
                   sinePhase, needsToSaveCurrentFile, needsToLoadNextFile,
                   needsToCompleteLatencyMeasurement, loopGain, loopDelay, delayLine,
                   timerPc, routerPc, lastOutput, written, trimArgs, trimResult,
                   gapCall, peakCall, routerPlan>>

selectInputPair ==
    /\ SettingOp
    /\ selectedDeviceID /= ""
    /\ Devices[selectedDeviceID].inputChannelCount >= 2
    /\ hasInputPair' = TRUE
    /\ configureAudioDevice(selectedDeviceID, TRUE, hasOutputPair, sampleRate)
    /\ measuredLatencySamples' = LatencyAfterConfigure(selectedDeviceID)
    /\ UNCHANGED <<selectedDeviceID, hasOutputPair, sampleRate, bufferSize,
                   lastBufferSizeWhenMeasured, silenceBetweenFilesMs, outputFolderPath,
                   files, currentFileIndex, isProcessing, isMeasuringLatency,
                   isPreviewing, isTestingHardware, currentPreviewFileIndex,
                   previewPlaylist, playbackSamplePosition, recordingSamplePosition,
                   targetRecordingSamples, isInProcessingGap,
                   processingGapSamplesRemaining, isInPreviewGap,
                   previewGapSamplesRemaining, impulseSent, capturedSamplesSinceImpulse,
                   sinePhase, needsToSaveCurrentFile, needsToLoadNextFile,
                   needsToCompleteLatencyMeasurement, loopGain, loopDelay, delayLine,
                   timerPc, routerPc, lastOutput, written, trimArgs, trimResult,
                   gapCall, peakCall, routerPlan>>

selectOutputPair ==
    /\ SettingOp
    /\ selectedDeviceID /= ""
    /\ Devices[selectedDeviceID].outputChannelCount >= 2
    /\ hasOutputPair' = TRUE
    /\ configureAudioDevice(selectedDeviceID, hasInputPair, TRUE, sampleRate)
    /\ measuredLatencySamples' = LatencyAfterConfigure(selectedDeviceID)
    /\ UNCHANGED <<selectedDeviceID, hasInputPair, sampleRate, bufferSize,
                   lastBufferSizeWhenMeasured, silenceBetweenFilesMs, outputFolderPath,
                   files, currentFileIndex, isProcessing, isMeasuringLatency,
                   isPreviewing, isTestingHardware, currentPreviewFileIndex,
                   previewPlaylist, playbackSamplePosition, recordingSamplePosition,
                   targetRecordingSamples, isInProcessingGap,
                   processingGapSamplesRemaining, isInPreviewGap,
                   previewGapSamplesRemaining, impulseSent, capturedSamplesSinceImpulse,
                   sinePhase, needsToSaveCurrentFile, needsToLoadNextFile,
                   needsToCompleteLatencyMeasurement, loopGain, loopDelay, delayLine,
                   timerPc, routerPc, lastOutput, written, trimArgs, trimResult,
                   gapCall, peakCall, routerPlan>>

\* SettingsComponent::comboBoxChanged, sampleRateCombo
sampleRateComboChanged(rate) ==
    /\ SettingOp
    /\ sampleRate' = rate
    /\ measuredLatencySamples' = -1
    /\ configureAudioDevice(selectedDeviceID, hasInputPair, hasOutputPair, rate)
    /\ UNCHANGED <<selectedDeviceID, hasInputPair, hasOutputPair, bufferSize,
                   lastBufferSizeWhenMeasured, silenceBetweenFilesMs, outputFolderPath,
                   files, currentFileIndex, isProcessing, isMeasuringLatency,
                   isPreviewing, isTestingHardware, currentPreviewFileIndex,
                   previewPlaylist, playbackSamplePosition, recordingSamplePosition,
                   targetRecordingSamples, isInProcessingGap,
                   processingGapSamplesRemaining, isInPreviewGap,
                   previewGapSamplesRemaining, impulseSent, capturedSamplesSinceImpulse,
                   sinePhase, needsToSaveCurrentFile, needsToLoadNextFile,
                   needsToCompleteLatencyMeasurement, loopGain, loopDelay, delayLine,
                   timerPc, routerPc, lastOutput, written, trimArgs, trimResult,
                   gapCall, peakCall, routerPlan>>

\* SettingsComponent::comboBoxChanged, bufferSizeCombo
bufferSizeComboChanged(size) ==
    /\ SettingOp
    /\ bufferSize' = size
    /\ UNCHANGED <<selectedDeviceID, hasInputPair, hasOutputPair, sampleRate,
                   measuredLatencySamples, lastBufferSizeWhenMeasured,
                   silenceBetweenFilesMs, outputFolderPath, files, currentFileIndex,
                   isProcessing, isMeasuringLatency, isPreviewing, isTestingHardware,
                   currentPlaybackBuffer, recordingBuffer, latencyCaptureBuffer,
                   currentPreviewFileIndex, previewPlaylist, playbackSamplePosition,
                   recordingSamplePosition, targetRecordingSamples, isInProcessingGap,
                   processingGapSamplesRemaining, isInPreviewGap,
                   previewGapSamplesRemaining, impulseSent, capturedSamplesSinceImpulse,
                   sinePhase, needsToSaveCurrentFile, needsToLoadNextFile,
                   needsToCompleteLatencyMeasurement, deviceBlockSize, numInputChannels,
                   numOutputChannels, loopGain, loopDelay, delayLine, timerPc, routerPc,
                   lastOutput, written, trimArgs, trimResult, gapCall, peakCall,
                   routerPlan>>

\* SettingsComponent::sliderValueChanged, silenceDelaySlider
silenceDelayChanged(ms) ==
    /\ SettingOp
    /\ silenceBetweenFilesMs' = ms
    /\ UNCHANGED <<selectedDeviceID, hasInputPair, hasOutputPair, sampleRate,
                   bufferSize, measuredLatencySamples, lastBufferSizeWhenMeasured,
                   outputFolderPath, files, currentFileIndex, isProcessing,
                   isMeasuringLatency, isPreviewing, isTestingHardware,
                   currentPlaybackBuffer, recordingBuffer, latencyCaptureBuffer,
                   currentPreviewFileIndex, previewPlaylist, playbackSamplePosition,
                   recordingSamplePosition, targetRecordingSamples, isInProcessingGap,
                   processingGapSamplesRemaining, isInPreviewGap,
                   previewGapSamplesRemaining, impulseSent, capturedSamplesSinceImpulse,
                   sinePhase, needsToSaveCurrentFile, needsToLoadNextFile,
                   needsToCompleteLatencyMeasurement, deviceBlockSize, numInputChannels,
                   numOutputChannels, loopGain, loopDelay, delayLine, timerPc, routerPc,
                   lastOutput, written, trimArgs, trimResult, gapCall, peakCall,
                   routerPlan>>

\* onOutputFolderSelected: only an existing folder is taken
outputFolderSelected(folder) ==
    /\ SettingOp
    /\ FolderExists(folder)
    /\ outputFolderPath' = folder
    /\ UNCHANGED <<selectedDeviceID, hasInputPair, hasOutputPair, sampleRate,
                   bufferSize, measuredLatencySamples, lastBufferSizeWhenMeasured,
                   silenceBetweenFilesMs, files, currentFileIndex, isProcessing,
                   isMeasuringLatency, isPreviewing, isTestingHardware,
                   currentPlaybackBuffer, recordingBuffer, latencyCaptureBuffer,
                   currentPreviewFileIndex, previewPlaylist, playbackSamplePosition,
                   recordingSamplePosition, targetRecordingSamples, isInProcessingGap,
                   processingGapSamplesRemaining, isInPreviewGap,
                   previewGapSamplesRemaining, impulseSent, capturedSamplesSinceImpulse,
                   sinePhase, needsToSaveCurrentFile, needsToLoadNextFile,
                   needsToCompleteLatencyMeasurement, deviceBlockSize, numInputChannels,
                   numOutputChannels, loopGain, loopDelay, delayLine, timerPc, routerPc,
                   lastOutput, written, trimArgs, trimResult, gapCall, peakCall,
                   routerPlan>>

addFiles(name) ==
    /\ SettingOp
    /\ Len(files) < MaxFiles
    /\ \A i \in 1..Len(files) : files[i].id /= name
    /\ files' = Append(files, NewAudioFile(name))
    /\ UNCHANGED <<selectedDeviceID, hasInputPair, hasOutputPair, sampleRate,
                   bufferSize, measuredLatencySamples, lastBufferSizeWhenMeasured,
                   silenceBetweenFilesMs, outputFolderPath, currentFileIndex,
                   isProcessing, isMeasuringLatency, isPreviewing, isTestingHardware,
                   currentPlaybackBuffer, recordingBuffer, latencyCaptureBuffer,
                   currentPreviewFileIndex, previewPlaylist, playbackSamplePosition,
                   recordingSamplePosition, targetRecordingSamples, isInProcessingGap,
                   processingGapSamplesRemaining, isInPreviewGap,
                   previewGapSamplesRemaining, impulseSent, capturedSamplesSinceImpulse,
                   sinePhase, needsToSaveCurrentFile, needsToLoadNextFile,
                   needsToCompleteLatencyMeasurement, deviceBlockSize, numInputChannels,
                   numOutputChannels, loopGain, loopDelay, delayLine, timerPc, routerPc,
                   lastOutput, written, trimArgs, trimResult, gapCall, peakCall,
                   routerPlan>>

clearFiles ==
    /\ SettingOp
    /\ files' = <<>>
    /\ UNCHANGED <<selectedDeviceID, hasInputPair, hasOutputPair, sampleRate,
                   bufferSize, measuredLatencySamples, lastBufferSizeWhenMeasured,
                   silenceBetweenFilesMs, outputFolderPath, currentFileIndex,
                   isProcessing, isMeasuringLatency, isPreviewing, isTestingHardware,
                   currentPlaybackBuffer, recordingBuffer, latencyCaptureBuffer,
                   currentPreviewFileIndex, previewPlaylist, playbackSamplePosition,
                   recordingSamplePosition, targetRecordingSamples, isInProcessingGap,
                   processingGapSamplesRemaining, isInPreviewGap,
                   previewGapSamplesRemaining, impulseSent, capturedSamplesSinceImpulse,
                   sinePhase, needsToSaveCurrentFile, needsToLoadNextFile,
                   needsToCompleteLatencyMeasurement, deviceBlockSize, numInputChannels,
                   numOutputChannels, loopGain, loopDelay, delayLine, timerPc, routerPc,
                   lastOutput, written, trimArgs, trimResult, gapCall, peakCall,
                   routerPlan>>

toggleFileSelection(fileIndex) ==
    /\ SettingOp
    /\ fileIndex >= 0 /\ fileIndex < Len(files)
    /\ files' = [files EXCEPT ![fileIndex + 1].isSelected = ~files[fileIndex + 1].isSelected]
    /\ UNCHANGED <<selectedDeviceID, hasInputPair, hasOutputPair, sampleRate,
                   bufferSize, measuredLatencySamples, lastBufferSizeWhenMeasured,
                   silenceBetweenFilesMs, outputFolderPath, currentFileIndex,
                   isProcessing, isMeasuringLatency, isPreviewing, isTestingHardware,
                   currentPlaybackBuffer, recordingBuffer, latencyCaptureBuffer,
                   currentPreviewFileIndex, previewPlaylist, playbackSamplePosition,
                   recordingSamplePosition, targetRecordingSamples, isInProcessingGap,
                   processingGapSamplesRemaining, isInPreviewGap,
                   previewGapSamplesRemaining, impulseSent, capturedSamplesSinceImpulse,
                   sinePhase, needsToSaveCurrentFile, needsToLoadNextFile,
                   needsToCompleteLatencyMeasurement, deviceBlockSize, numInputChannels,
                   numOutputChannels, loopGain, loopDelay, delayLine, timerPc, routerPc,
                   lastOutput, written, trimArgs, trimResult, gapCall, peakCall,
                   routerPlan>>

\* the preconditions of startProcessing, in the order the code checks them
StartProcessingAccepted ==
    /\ canMeasureLatency
    /\ measuredLatencySamples >= 0
    /\ files /= <<>>
    /\ outputFolderPath /= ""
    /\ validateOutputFolder

\* a startProcessing that initialises the batch before it validates
startProcessingResetsFirst ==
    /\ UserOp
    /\ IF ~StartProcessingAccepted
       THEN /\ currentFileIndex' = 0
            /\ isProcessing' = FALSE
            /\ isInProcessingGap' = FALSE
            /\ processingGapSamplesRemaining' = 0
            /\ UNCHANGED <<files, currentPlaybackBuffer, recordingBuffer,
                           targetRecordingSamples, playbackSamplePosition,
                           recordingSamplePosition>>
       ELSE LET l == loadNextFileForProcessing(files, 0)
            IN /\ currentFileIndex' = 0
               /\ isInProcessingGap' = FALSE
               /\ processingGapSamplesRemaining' = 0
               /\ files' = l.files
               /\ currentPlaybackBuffer' = l.playback
               /\ targetRecordingSamples' = l.target
               /\ isProcessing' = l.ok
               /\ IF l.ok
                  THEN /\ playbackSamplePosition' = 0
                       /\ recordingSamplePosition' = 0
                       /\ recordingBuffer' =
                             ClearedBuffer(l.recording.numChannels, getNumSamples(l.recording))
                  ELSE UNCHANGED <<playbackSamplePosition, recordingSamplePosition,
                                   recordingBuffer>>
    /\ UNCHANGED <<selectedDeviceID, hasInputPair, hasOutputPair, sampleRate,
                   bufferSize, measuredLatencySamples, lastBufferSizeWhenMeasured,
                   silenceBetweenFilesMs, outputFolderPath, isMeasuringLatency,
                   isPreviewing, isTestingHardware, latencyCaptureBuffer,
                   currentPreviewFileIndex, previewPlaylist, isInPreviewGap,
                   previewGapSamplesRemaining, impulseSent, capturedSamplesSinceImpulse,
                   sinePhase, needsToSaveCurrentFile, needsToLoadNextFile,
                   needsToCompleteLatencyMeasurement, deviceBlockSize, numInputChannels,
                   numOutputChannels, loopGain, loopDelay, delayLine, timerPc, routerPc,
                   lastOutput, written, settingChanges, trimArgs, trimResult, gapCall,
                   peakCall, routerPlan>>

startProcessing ==
    /\ UserOp
    /\ IF ~StartProcessingAccepted
       THEN UNCHANGED <<currentFileIndex, isProcessing, isInProcessingGap,
                        processingGapSamplesRemaining, files, currentPlaybackBuffer,
                        recordingBuffer, targetRecordingSamples, playbackSamplePosition,
                        recordingSamplePosition>>
       ELSE LET l == loadNextFileForProcessing(files, 0)
            IN /\ currentFileIndex' = 0
               /\ isInProcessingGap' = FALSE
               /\ processingGapSamplesRemaining' = 0
               /\ files' = l.files
               /\ currentPlaybackBuffer' = l.playback
               /\ targetRecordingSamples' = l.target
               /\ isProcessing' = l.ok
               /\ IF l.ok
                  THEN /\ playbackSamplePosition' = 0
                       /\ recordingSamplePosition' = 0
                       /\ recordingBuffer' =
                             ClearedBuffer(l.recording.numChannels, getNumSamples(l.recording))
                  ELSE UNCHANGED <<playbackSamplePosition, recordingSamplePosition,
                                   recordingBuffer>>
    /\ UNCHANGED <<selectedDeviceID, hasInputPair, hasOutputPair, sampleRate,
                   bufferSize, measuredLatencySamples, lastBufferSizeWhenMeasured,
                   silenceBetweenFilesMs, outputFolderPath, isMeasuringLatency,
                   isPreviewing, isTestingHardware, latencyCaptureBuffer,
                   currentPreviewFileIndex, previewPlaylist, isInPreviewGap,
                   previewGapSamplesRemaining, impulseSent, capturedSamplesSinceImpulse,
                   sinePhase, needsToSaveCurrentFile, needsToLoadNextFile,
                   needsToCompleteLatencyMeasurement, deviceBlockSize, numInputChannels,
                   numOutputChannels, loopGain, loopDelay, delayLine, timerPc, routerPc,
                   lastOutput, written, settingChanges, trimArgs, trimResult, gapCall,
                   peakCall, routerPlan>>

stopAllAudio ==
    /\ UserOp
    /\ isProcessing' = FALSE
    /\ isPreviewing' = FALSE
    /\ isMeasuringLatency' = FALSE
    /\ isTestingHardware' = FALSE
    /\ playbackSamplePosition' = 0
    /\ recordingSamplePosition' = 0
    /\ UNCHANGED <<selectedDeviceID, hasInputPair, hasOutputPair, sampleRate,
                   bufferSize, measuredLatencySamples, lastBufferSizeWhenMeasured,
                   silenceBetweenFilesMs, outputFolderPath, files, currentFileIndex,
                   currentPlaybackBuffer, recordingBuffer, latencyCaptureBuffer,
                   currentPreviewFileIndex, previewPlaylist, targetRecordingSamples,
                   isInProcessingGap, processingGapSamplesRemaining, isInPreviewGap,
                   previewGapSamplesRemaining, impulseSent, capturedSamplesSinceImpulse,
                   sinePhase, needsToSaveCurrentFile, needsToLoadNextFile,
                   needsToCompleteLatencyMeasurement, deviceBlockSize, numInputChannels,
                   numOutputChannels, loopGain, loopDelay, delayLine, timerPc, routerPc,
                   lastOutput, written, settingChanges, trimArgs, trimResult, gapCall,
                   peakCall, routerPlan>>

startLatencyMeasurement ==
    /\ UserOp
    /\ IF ~canMeasureLatency
       THEN UNCHANGED <<latencyCaptureBuffer, impulseSent, capturedSamplesSinceImpulse,
                        isMeasuringLatency>>
       ELSE /\ latencyCaptureBuffer' =
                  ClearedBuffer(latencyCaptureBuffer.numChannels,
                                getNumSamples(latencyCaptureBuffer))
            /\ impulseSent' = FALSE
            /\ capturedSamplesSinceImpulse' = 0
            /\ isMeasuringLatency' = TRUE
    /\ UNCHANGED <<selectedDeviceID, hasInputPair, hasOutputPair, sampleRate,
                   bufferSize, measuredLatencySamples, lastBufferSizeWhenMeasured,
                   silenceBetweenFilesMs, outputFolderPath, files, currentFileIndex,
                   isProcessing, isPreviewing, isTestingHardware, currentPlaybackBuffer,
                   recordingBuffer, currentPreviewFileIndex, previewPlaylist,
                   playbackSamplePosition, recordingSamplePosition,
                   targetRecordingSamples, isInProcessingGap,
                   processingGapSamplesRemaining, isInPreviewGap,
                   previewGapSamplesRemaining, sinePhase, needsToSaveCurrentFile,
                   needsToLoadNextFile, needsToCompleteLatencyMeasurement,
                   deviceBlockSize, numInputChannels, numOutputChannels, loopGain,
                   loopDelay, delayLine, timerPc, routerPc, lastOutput, written,
                   settingChanges, trimArgs, trimResult, gapCall, peakCall, routerPlan>>

\* a playlist of every selected file, whatever its sample rate
BuildPlaylistOfSelected ==
    LET keep == {i \in 1..Len(files) : files[i].isSelected}
        RECURSIVE collect(_)
        collect(i) == IF i > Len(files) THEN <<>>
                      ELSE IF i \in keep THEN <<files[i].id>> \o collect(i + 1)
                      ELSE collect(i + 1)
    IN collect(1)

\* the playlist startPreview builds: ids of the selected, rate-valid files in list order
BuildPlaylist ==
    LET keep == {i \in 1..Len(files) : files[i].isSelected /\ isValid(files[i])}
        RECURSIVE collect(_)
        collect(i) == IF i > Len(files) THEN <<>>
                      ELSE IF i \in keep THEN <<files[i].id>> \o collect(i + 1)
                      ELSE collect(i + 1)
    IN collect(1)

\* a preview start that is refused until a latency has been measured
startPreviewAfterMeasurement ==
    /\ UserOp
    /\ IF ~hasOutputPair \/ measuredLatencySamples < 0
       THEN UNCHANGED <<previewPlaylist, currentPreviewFileIndex, playbackSamplePosition,
                        isInPreviewGap, previewGapSamplesRemaining, needsToLoadNextFile>>
       ELSE /\ previewPlaylist' = BuildPlaylist
            /\ IF BuildPlaylist = <<>>
               THEN UNCHANGED <<currentPreviewFileIndex, playbackSamplePosition,
                                isInPreviewGap, previewGapSamplesRemaining,
                                needsToLoadNextFile>>
               ELSE /\ currentPreviewFileIndex' = -1
                    /\ playbackSamplePosition' = 0
                    /\ isInPreviewGap' = FALSE
                    /\ previewGapSamplesRemaining' = 0
                    /\ needsToLoadNextFile' = TRUE
    /\ UNCHANGED <<selectedDeviceID, hasInputPair, hasOutputPair, sampleRate,
                   bufferSize, measuredLatencySamples, lastBufferSizeWhenMeasured,
                   silenceBetweenFilesMs, outputFolderPath, files, currentFileIndex,
                   isProcessing, isMeasuringLatency, isPreviewing, isTestingHardware,
                   currentPlaybackBuffer, recordingBuffer, latencyCaptureBuffer,
                   recordingSamplePosition, targetRecordingSamples, isInProcessingGap,
                   processingGapSamplesRemaining, impulseSent,
                   capturedSamplesSinceImpulse, sinePhase, needsToSaveCurrentFile,
                   needsToCompleteLatencyMeasurement, deviceBlockSize, numInputChannels,
                   numOutputChannels, loopGain, loopDelay, delayLine, timerPc, routerPc,
                   lastOutput, written, settingChanges, trimArgs, trimResult, gapCall,
                   peakCall, routerPlan>>

startPreview ==
    /\ UserOp
    /\ IF ~hasOutputPair
       THEN UNCHANGED <<previewPlaylist, currentPreviewFileIndex, playbackSamplePosition,
                        isInPreviewGap, previewGapSamplesRemaining, needsToLoadNextFile>>
       ELSE /\ previewPlaylist' = BuildPlaylist
            /\ IF BuildPlaylist = <<>>
               THEN UNCHANGED <<currentPreviewFileIndex, playbackSamplePosition,
                                isInPreviewGap, previewGapSamplesRemaining,
                                needsToLoadNextFile>>
               ELSE /\ currentPreviewFileIndex' = -1
                    /\ playbackSamplePosition' = 0
                    /\ isInPreviewGap' = FALSE
                    /\ previewGapSamplesRemaining' = 0
                    /\ needsToLoadNextFile' = TRUE
    /\ UNCHANGED <<selectedDeviceID, hasInputPair, hasOutputPair, sampleRate,
                   bufferSize, measuredLatencySamples, lastBufferSizeWhenMeasured,
                   silenceBetweenFilesMs, outputFolderPath, files, currentFileIndex,
                   isProcessing, isMeasuringLatency, isPreviewing, isTestingHardware,
                   currentPlaybackBuffer, recordingBuffer, latencyCaptureBuffer,
                   recordingSamplePosition, targetRecordingSamples, isInProcessingGap,
                   processingGapSamplesRemaining, impulseSent,
                   capturedSamplesSinceImpulse, sinePhase, needsToSaveCurrentFile,
                   needsToCompleteLatencyMeasurement, deviceBlockSize, numInputChannels,
                   numOutputChannels, loopGain, loopDelay, delayLine, timerPc, routerPc,
                   lastOutput, written, settingChanges, trimArgs, trimResult, gapCall,
                   peakCall, routerPlan>>

stopPreview ==
    /\ UserOp
    /\ isPreviewing' = FALSE
    /\ previewPlaylist' = <<>>
    /\ currentPreviewFileIndex' = -1
    /\ playbackSamplePosition' = 0
    /\ isInPreviewGap' = FALSE
    /\ previewGapSamplesRemaining' = 0
    /\ needsToLoadNextFile' = FALSE
    /\ UNCHANGED <<selectedDeviceID, hasInputPair, hasOutputPair, sampleRate,
                   bufferSize, measuredLatencySamples, lastBufferSizeWhenMeasured,
                   silenceBetweenFilesMs, outputFolderPath, files, currentFileIndex,
                   isProcessing, isMeasuringLatency, isTestingHardware,
                   currentPlaybackBuffer, recordingBuffer, latencyCaptureBuffer,
                   recordingSamplePosition, targetRecordingSamples, isInProcessingGap,
                   processingGapSamplesRemaining, impulseSent,
                   capturedSamplesSinceImpulse, sinePhase, needsToSaveCurrentFile,
                   needsToCompleteLatencyMeasurement, deviceBlockSize, numInputChannels,
                   numOutputChannels, loopGain, loopDelay, delayLine, timerPc, routerPc,
                   lastOutput, written, settingChanges, trimArgs, trimResult, gapCall,
                   peakCall, routerPlan>>

startHardwareTest ==
    /\ UserOp
    /\ IF ~canMeasureLatency
       THEN UNCHANGED <<sinePhase, isTestingHardware>>
       ELSE /\ sinePhase' = 0
            /\ isTestingHardware' = TRUE
    /\ UNCHANGED <<selectedDeviceID, hasInputPair, hasOutputPair, sampleRate,
                   bufferSize, measuredLatencySamples, lastBufferSizeWhenMeasured,
                   silenceBetweenFilesMs, outputFolderPath, files, currentFileIndex,
                   isProcessing, isMeasuringLatency, isPreviewing,
                   currentPlaybackBuffer, recordingBuffer, latencyCaptureBuffer,
                   currentPreviewFileIndex, previewPlaylist, playbackSamplePosition,
                   recordingSamplePosition, targetRecordingSamples, isInProcessingGap,
                   processingGapSamplesRemaining, isInPreviewGap,
                   previewGapSamplesRemaining, impulseSent, capturedSamplesSinceImpulse,
                   needsToSaveCurrentFile, needsToLoadNextFile,
                   needsToCompleteLatencyMeasurement, deviceBlockSize, numInputChannels,
                   numOutputChannels, loopGain, loopDelay, delayLine, timerPc, routerPc,
                   lastOutput, written, settingChanges, trimArgs, trimResult, gapCall,
                   peakCall, routerPlan>>

stopHardwareTest ==
    /\ UserOp
    /\ isTestingHardware' = FALSE
    /\ UNCHANGED <<selectedDeviceID, hasInputPair, hasOutputPair, sampleRate,
                   bufferSize, measuredLatencySamples, lastBufferSizeWhenMeasured,
                   silenceBetweenFilesMs, outputFolderPath, files, currentFileIndex,
                   isProcessing, isMeasuringLatency, isPreviewing,
                   currentPlaybackBuffer, recordingBuffer, latencyCaptureBuffer,
                   currentPreviewFileIndex, previewPlaylist, playbackSamplePosition,
                   recordingSamplePosition, targetRecordingSamples, isInProcessingGap,
                   processingGapSamplesRemaining, isInPreviewGap,
                   previewGapSamplesRemaining, impulseSent, capturedSamplesSinceImpulse,
                   sinePhase, needsToSaveCurrentFile, needsToLoadNextFile,
                   needsToCompleteLatencyMeasurement, deviceBlockSize, numInputChannels,
                   numOutputChannels, loopGain, loopDelay, delayLine, timerPc, routerPc,
                   lastOutput, written, settingChanges, trimArgs, trimResult, gapCall,
                   peakCall, routerPlan>>

(***************************************************************************)
(* Initial states and specifications                                       *)
(***************************************************************************)
NoTrimArgs == [captured |-> Buf(1, <<>>), latencySamples |-> 0, originalLength |-> 0]

NoTrimResult == [done |-> FALSE, trimmed |-> Buf(1, <<>>), reads |-> {}]

NoGapCall == [ms |-> 0, rate |-> 0, done |-> FALSE, gap |-> 0]

NoPeakCall == [buffer |-> Buf(1, <<>>), threshold |-> 0, done |-> FALSE, position |-> -1]

NoPlan == [gap |-> FALSE, samplesToPlay |-> 0, samplesToRecord |-> 0]

LoopDelays == {2, 3}

BaseRate == CHOOSE r \in SampleRates : \A q \in SampleRates : r <= q

\* the session with no take, no measurement and no preview under way
InitSession(device, block, rate) ==
    /\ selectedDeviceID = device
    /\ hasInputPair = (device /= "" /\ Devices[device].inputChannelCount >= 2)
    /\ hasOutputPair = (device /= "" /\ Devices[device].outputChannelCount >= 2)
    /\ sampleRate = rate
    /\ bufferSize = block
    /\ deviceBlockSize = block
    /\ numInputChannels = StereoChannels
    /\ numOutputChannels = StereoChannels
    /\ currentFileIndex = 0
    /\ isProcessing = FALSE
    /\ isMeasuringLatency = FALSE
    /\ isPreviewing = FALSE
    /\ isTestingHardware = FALSE
    /\ currentPlaybackBuffer = ClearedBuffer(StereoChannels, block * PreparePlaybackBlocks)
    /\ recordingBuffer = ClearedBuffer(StereoChannels, rate * PrepareRecordSeconds)
    /\ currentPreviewFileIndex = -1
    /\ previewPlaylist = <<>>
    /\ playbackSamplePosition = 0
    /\ recordingSamplePosition = 0
    /\ targetRecordingSamples = 0
    /\ isInProcessingGap = FALSE
    /\ processingGapSamplesRemaining = 0
    /\ isInPreviewGap = FALSE
    /\ previewGapSamplesRemaining = 0
    /\ sinePhase = 0
    /\ needsToSaveCurrentFile = FALSE
    /\ needsToLoadNextFile = FALSE
    /\ needsToCompleteLatencyMeasurement = FALSE
    /\ timerPc = 0
    /\ routerPc = "idle"
    /\ lastOutput = Silence(block)
    /\ written = <<>>
    /\ userOps = 0
    /\ settingChanges = 0

\* no measurement has been requested yet
Unmeasured(block, rate) ==
    /\ measuredLatencySamples = -1
    /\ lastBufferSizeWhenMeasured = block
    /\ latencyCaptureBuffer = ClearedBuffer(StereoChannels, rate * CaptureSeconds)
    /\ impulseSent = FALSE
    /\ capturedSamplesSinceImpulse = 0

\* a measurement through a unity loop of delay frames has been made and reported:
\* the impulse came back in capture frame delay - block
Measured(block, rate, delay) ==
    /\ measuredLatencySamples = (delay - block) * StereoChannels
    /\ lastBufferSizeWhenMeasured = block
    /\ latencyCaptureBuffer =
          Buf(StereoChannels,
              [i \in 1..(rate * CaptureSeconds) |->
                  IF i - 1 = delay - block
                  THEN <<ImpulseAmplitude, ImpulseAmplitude>>
                  ELSE <<0, 0>>])
    /\ impulseSent = TRUE
    /\ capturedSamplesSinceImpulse = block * (((delay - block) \div block) + 1)

\* a configured session: device selected, block size, files queued, output folder,
\* gap setting, and the hardware loop connected to the device
BaseSetup ==
    [device |-> "full", block |-> 2, folder |-> "out", queue |-> <<"c", "a">>,
     silenceMs |-> 250, gain |-> "unity", delay |-> 3, measured |-> FALSE]

\* the configured session and the sessions that differ from it in one respect
Setups ==
    {BaseSetup}
    \cup {[BaseSetup EXCEPT !.device = ""]}
    \cup {[BaseSetup EXCEPT !.block = b] : b \in BlockSizes}
    \cup {[BaseSetup EXCEPT !.folder = f] : f \in Folders}
    \cup {[BaseSetup EXCEPT !.queue = q] : q \in {<<>>, <<"a">>, <<"b", "a">>, <<"d", "c">>, <<"c", "d">>}}
    \cup {[BaseSetup EXCEPT !.silenceMs = ms] : ms \in SilenceMsChoices}
    \cup {[BaseSetup EXCEPT !.gain = g] : g \in LoopGains}
    \cup {[BaseSetup EXCEPT !.delay = d] : d \in LoopDelays}
    \cup {[BaseSetup EXCEPT !.delay = d, !.measured = TRUE] : d \in LoopDelays}

InitSetup(s) ==
    /\ InitSession(s.device, s.block, BaseRate)
    /\ IF s.measured
       THEN Measured(s.block, BaseRate, s.delay)
       ELSE Unmeasured(s.block, BaseRate)
    /\ silenceBetweenFilesMs = s.silenceMs
    /\ outputFolderPath = s.folder
    /\ files = [i \in 1..Len(s.queue) |-> NewAudioFile(s.queue[i])]
    /\ loopGain = s.gain
    /\ loopDelay = s.delay
    /\ delayLine = Silence(s.delay)

Init ==
    /\ \E s \in Setups : InitSetup(s)
    /\ trimArgs = NoTrimArgs
    /\ trimResult = NoTrimResult
    /\ gapCall = NoGapCall
    /\ peakCall = NoPeakCall
    /\ routerPlan = NoPlan

Next ==
    \/ getNextAudioBlock
    \/ timerCallback
    \/ \E d \in DOMAIN Devices : selectDevice(d)
    \/ selectInputPair
    \/ selectOutputPair
    \/ \E r \in SampleRates : sampleRateComboChanged(r)
    \/ \E b \in BlockSizes : bufferSizeComboChanged(b)
    \/ \E ms \in SilenceMsChoices : silenceDelayChanged(ms)
    \/ \E f \in Folders : outputFolderSelected(f)
    \/ \E x \in FileNames : addFiles(x)
    \/ clearFiles
    \/ \E i \in 0..(MaxFiles - 1) : toggleFileSelection(i)
    \/ startProcessing
    \/ stopAllAudio
    \/ startLatencyMeasurement
    \/ startPreview
    \/ stopPreview
    \/ startHardwareTest
    \/ stopHardwareTest

Spec == Init /\ [][Next]_vars

(***************************************************************************)
(* trimLatency as a pure function: SpecTrim draws the arguments and        *)
(* applies it once                                                         *)
(***************************************************************************)
MaxTrimFrames == 3

TrimSamples == {0, 4}

TrimBuffers ==
    UNION {{Buf(ch, fr) : fr \in [1..n -> [1..ch -> TrimSamples]]} :
              ch \in 1..StereoChannels, n \in 0..MaxTrimFrames}

TrimInit ==
    /\ InitSetup(BaseSetup)
    /\ trimArgs \in [captured : TrimBuffers,
                     latencySamples : (0 - 2 * StereoChannels)..(StereoChannels * (MaxTrimFrames + 2)),
                     originalLength : 0..(MaxTrimFrames + 1)]
    /\ trimResult = NoTrimResult
    /\ gapCall = NoGapCall
    /\ peakCall = NoPeakCall
    /\ routerPlan = NoPlan

TrimCall ==
    /\ ~trimResult.done
    /\ LET r == trimLatencyRun(trimArgs.captured, trimArgs.latencySamples, trimArgs.originalLength)
       IN trimResult' = [done |-> TRUE, trimmed |-> r.trimmed, reads |-> r.reads]
    /\ UNCHANGED <<selectedDeviceID, hasInputPair, hasOutputPair, sampleRate,
                   bufferSize, measuredLatencySamples, lastBufferSizeWhenMeasured,
                   silenceBetweenFilesMs, outputFolderPath, files, currentFileIndex,
                   isProcessing, isMeasuringLatency, isPreviewing, isTestingHardware,
                   currentPlaybackBuffer, recordingBuffer, latencyCaptureBuffer,
                   currentPreviewFileIndex, previewPlaylist, playbackSamplePosition,
                   recordingSamplePosition, targetRecordingSamples, isInProcessingGap,
                   processingGapSamplesRemaining, isInPreviewGap,
                   previewGapSamplesRemaining, impulseSent, capturedSamplesSinceImpulse,
                   sinePhase, needsToSaveCurrentFile, needsToLoadNextFile,
                   needsToCompleteLatencyMeasurement, deviceBlockSize, numInputChannels,
                   numOutputChannels, loopGain, loopDelay, delayLine, timerPc, routerPc,
                   lastOutput, written, userOps, settingChanges, trimArgs, gapCall,
                   peakCall, routerPlan>>

SpecTrim == TrimInit /\ [][TrimCall]_vars

TrimLatencyFrames == CDiv(trimArgs.latencySamples, trimArgs.captured.numChannels)

TrimCapturedFrames == getNumSamples(trimArgs.captured)

\* C2: trimLatency returns exactly targetFrames frames; with latencyFrames =
\* latencySamples / channelCount (truncating) inside the captured buffer, frame i is
\* captured frame latencyFrames + i for i < min(targetFrames, capturedFrames -
\* latencyFrames) and every later frame is zero.
TrimExtractsSlice ==
    trimResult.done =>
        /\ getNumSamples(trimResult.trimmed) = trimArgs.originalLength
        /\ trimResult.trimmed.numChannels = trimArgs.captured.numChannels
        /\ (TrimLatencyFrames >= 0 /\ TrimLatencyFrames <= TrimCapturedFrames) =>
              \A i \in 0..(trimArgs.originalLength - 1) :
                 IF i < jmin(trimArgs.originalLength, TrimCapturedFrames - TrimLatencyFrames)
                 THEN trimResult.trimmed.frames[i + 1]
                         = trimArgs.captured.frames[TrimLatencyFrames + i + 1]
                 ELSE trimResult.trimmed.frames[i + 1]
                         = ZeroFrame(trimArgs.captured.numChannels)

\* a trim with a positive latency whose capture is too short: part copied, tail padded
TrimShortfallWitness ==
    /\ trimResult.done
    /\ TrimLatencyFrames > 0
    /\ TrimLatencyFrames < TrimCapturedFrames
    /\ TrimLatencyFrames + trimArgs.originalLength > TrimCapturedFrames
    /\ trimArgs.captured.frames[TrimLatencyFrames + 1] /= ZeroFrame(trimArgs.captured.numChannels)
    /\ trimArgs.captured.frames[1] = ZeroFrame(trimArgs.captured.numChannels)

\* C3: when the start frame is negative or at or beyond the end of the captured
\* buffer, trimLatency returns targetFrames frames that are all zero and reads no
\* frame outside the captured buffer.
TrimInvalidStartIsSilent ==
    (trimResult.done /\ (TrimLatencyFrames < 0 \/ TrimLatencyFrames >= TrimCapturedFrames)) =>
        /\ getNumSamples(trimResult.trimmed) = trimArgs.originalLength
        /\ \A i \in 1..trimArgs.originalLength :
              trimResult.trimmed.frames[i] = ZeroFrame(trimArgs.captured.numChannels)
        /\ trimResult.reads \subseteq 0..(TrimCapturedFrames - 1)

\* a trim asked to start before the buffer, with frames to deliver and audio captured
TrimNegativeStartWitness ==
    /\ trimResult.done
    /\ TrimLatencyFrames < 0
    /\ trimArgs.originalLength > 0
    /\ TrimCapturedFrames >= trimArgs.originalLength
    /\ \A i \in 1..TrimCapturedFrames :
          trimArgs.captured.frames[i] /= ZeroFrame(trimArgs.captured.numChannels)

(***************************************************************************)
(* SpecLoop: the hardware loop is a pure delay; one measurement, then one  *)
(* batch over a one-file queue                                             *)
(***************************************************************************)
MaxLoopDelay == 4

LoopSetups ==
    {[BaseSetup EXCEPT !.queue = <<"a">>, !.block = b, !.delay = d, !.silenceMs = ms] :
        b \in BlockSizes, d \in 0..MaxLoopDelay, ms \in SilenceMsChoices}

LoopInit ==
    /\ \E s \in LoopSetups : InitSetup(s)
    /\ trimArgs = NoTrimArgs
    /\ trimResult = NoTrimResult
    /\ gapCall = NoGapCall
    /\ peakCall = NoPeakCall
    /\ routerPlan = NoPlan

\* the measurement, requested once, on the idle session
LoopMeasure ==
    /\ measuredLatencySamples < 0
    /\ ~isMeasuringLatency
    /\ ~needsToCompleteLatencyMeasurement
    /\ userOps = 0
    /\ startLatencyMeasurement

\* the batch, started once, after the measurement has been reported
LoopProcess ==
    /\ measuredLatencySamples >= 0
    /\ ~isMeasuringLatency
    /\ ~needsToCompleteLatencyMeasurement
    /\ userOps = 1
    /\ startProcessing

LoopNext ==
    \/ LoopMeasure
    \/ LoopProcess
    \/ RouterMeasureSend
    \/ RouterMeasureCapture
    \/ RouterProcessing
    \/ RouterIdle
    \/ timerCallback

SpecLoop == LoopInit /\ [][LoopNext]_vars

\* C1: through a pure-delay loop, the file saved for a take after a successful
\* measurement holds the source's frames: output frame i is source frame i for every
\* i below the source length.
LoopOutputAligned ==
    \A p \in DOMAIN written :
        \A i \in 1..Len(Disk[p[2]].audio) :
            /\ i <= getNumSamples(written[p])
            /\ written[p].frames[i] = Disk[p[2]].audio[i]

(***************************************************************************)
(* Properties of the session under Spec                                    *)
(***************************************************************************)
\* a step that loads a take: an accepted startProcessing, or the "take finished"
\* handler moving on to the next file
TakeLoadStep ==
    \/ startProcessing /\ StartProcessingAccepted /\ isProcessing'
    \/ TimerSave /\ needsToSaveCurrentFile /\ ~needsToSaveCurrentFile' /\ isProcessing'

\* C4: every step that loads a take leaves the recording buffer and
\* targetRecordingSamples at sourceFrames + latencyFrames + 4 * latencyFrames frames,
\* latencyFrames being measuredLatencySamples / 2 by integer division.
LoadedTakeSized ==
    [][TakeLoadStep =>
          LET sourceFrames == Len(Disk[files'[currentFileIndex' + 1].id].audio)
              latencyFrames == CDiv(measuredLatencySamples', 2)
          IN /\ getNumSamples(recordingBuffer') = sourceFrames + latencyFrames + 4 * latencyFrames
             /\ targetRecordingSamples' = sourceFrames + latencyFrames + 4 * latencyFrames]_vars

\* the second file of the queue has just been loaded with a latency of one frame
SecondTakeLoaded ==
    /\ isProcessing
    /\ currentFileIndex = 1
    /\ Len(files) = 2
    /\ files[1].status = "completed"
    /\ files[2].status = "processing"
    /\ playbackSamplePosition = 0
    /\ recordingSamplePosition = 0
    /\ measuredLatencySamples = 2
    /\ currentPlaybackBuffer.frames = Disk[files[2].id].audio
    /\ targetRecordingSamples = Len(Disk[files[2].id].audio) + 5
    /\ getNumSamples(recordingBuffer) = targetRecordingSamples

\* a take has been loaded and not yet saved
TakeInProgress ==
    /\ currentFileIndex >= 0
    /\ currentFileIndex < Len(files)
    /\ files[currentFileIndex + 1].status = "processing"
    /\ isProcessing \/ needsToSaveCurrentFile

\* C5: while a take is loaded and not yet saved, the recording buffer has at least
\* as many frames as the source length saveCurrentRecording trims to plus the
\* latency frames (measuredLatencySamples / 2) it skips.
RecordingCoversTake ==
    TakeInProgress =>
        getNumSamples(recordingBuffer) >=
            getNumSamples(currentPlaybackBuffer) + CDiv(measuredLatencySamples, 2)

\* C6: at most one of isMeasuringLatency, isTestingHardware, isProcessing and
\* isPreviewing is true.
AtMostOneMode ==
    \A m1, m2 \in {"measuring", "testing", "processing", "previewing"} :
        LET on(m) == CASE m = "measuring" -> isMeasuringLatency
                       [] m = "testing" -> isTestingHardware
                       [] m = "processing" -> isProcessing
                       [] OTHER -> isPreviewing
        IN on(m1) /\ on(m2) => m1 = m2

\* C7: a step that changes the session's sample rate or buffer size while a
\* measurement is held leaves measuredLatencySamples at -1.
LatencyResetOnChange ==
    [][(measuredLatencySamples >= 0
        /\ (sampleRate' /= sampleRate \/ bufferSize' /= bufferSize))
       => measuredLatencySamples' = -1]_vars

\* the last measurement ended by timeout and none has been requested since
MeasurementTimedOut ==
    /\ ~isMeasuringLatency
    /\ impulseSent
    /\ capturedSamplesSinceImpulse > sampleRate * CaptureSeconds
    /\ measuredLatencySamples = -1

\* C8: once a measurement has ended by timeout, measuredLatencySamples stays -1 for
\* as long as no new measurement is under way, whatever the interleaving of router
\* callbacks and timer steps.
LatencyStaysUnmeasured ==
    [][MeasurementTimedOut => measuredLatencySamples' = -1]_vars

\* startProcessing called with a precondition violated
StartProcessingRejected == startProcessing /\ ~StartProcessingAccepted

\* C9: a startProcessing step taken with a precondition violated leaves the mode
\* flags, every file's status, currentFileIndex, the cursors and the buffers as
\* they were.
RejectedStartChangesNothing ==
    [][StartProcessingRejected =>
          UNCHANGED <<isProcessing, isMeasuringLatency, isPreviewing, isTestingHardware,
                      files, currentFileIndex, playbackSamplePosition,
                      recordingSamplePosition, currentPlaybackBuffer, recordingBuffer,
                      latencyCaptureBuffer>>]_vars

\* a take is under way, the measurement has been invalidated, and startProcessing
\* can be called
RejectedStartDuringTake ==
    /\ isProcessing
    /\ files /= <<>>
    /\ files[currentFileIndex + 1].status = "processing"
    /\ measuredLatencySamples < 0
    /\ ENABLED StartProcessingRejected

\* a file startProcessing can load: 44.1 kHz and readable
Eligible(file) == isValid(file) /\ Disk[file.id].readable

\* C10: an accepted startProcessing on a queue holding an eligible file marks the
\* files ahead of the first eligible one failed and enters Processing on that file.
StartEntersFirstEligible ==
    [][(startProcessing /\ StartProcessingAccepted
        /\ \E i \in 1..Len(files) : Eligible(files[i]))
       => LET first == CHOOSE i \in 1..Len(files) :
                          /\ Eligible(files[i])
                          /\ \A j \in 1..(i - 1) : ~Eligible(files[j])
          IN /\ isProcessing'
             /\ currentFileIndex' = first - 1
             /\ files'[first].status = "processing"
             /\ \A j \in 1..(first - 1) : files'[j].status = "failed"]_vars

\* C11: a queued file that cannot be loaded (sample-rate mismatch or decode failure)
\* never has an output file written for it and never has status completed.
FailedFileLeavesNoOutput ==
    \A i \in 1..Len(files) :
        ~Eligible(files[i]) =>
            /\ generateOutputFile(files[i]) \notin DOMAIN written
            /\ files[i].status /= "completed"

(***************************************************************************)
(* A batch under fair scheduling: the audio device keeps calling the       *)
(* router and the 33 ms timer keeps ticking                               *)
(***************************************************************************)
\* measured sessions with a stereo device, a writable folder and a queue
BatchSetups ==
    {[BaseSetup EXCEPT !.measured = TRUE, !.queue = q, !.silenceMs = ms] :
        q \in {<<"a">>, <<"c", "a">>, <<"c", "d">>, <<"c", "b">>}, ms \in SilenceMsChoices}

BatchInit ==
    /\ \E s \in BatchSetups : InitSetup(s)
    /\ trimArgs = NoTrimArgs
    /\ trimResult = NoTrimResult
    /\ gapCall = NoGapCall
    /\ peakCall = NoPeakCall
    /\ routerPlan = NoPlan

\* no measurement and no preview is requested, so the router only takes its
\* hardware-test, processing and idle branches
BatchRouter ==
    \/ RouterHardwareTest
    \/ RouterProcessing
    \/ RouterIdle

BatchNext ==
    \/ BatchRouter
    \/ timerCallback
    \/ startProcessing
    \/ startHardwareTest

SpecBatch ==
    /\ BatchInit
    /\ [][BatchNext]_vars
    /\ WF_vars(BatchRouter)
    /\ WF_vars(timerCallback)

\* C12: once a batch has entered Processing, with router callbacks and timer
\* ticks scheduled fairly and a stereo input and output available, the batch
\* eventually returns to Idle with every queued file completed or failed.
BatchReturnsToIdle ==
    isProcessing ~>
        (/\ ~isProcessing
         /\ \A i \in 1..Len(files) : files[i].status \in {"completed", "failed"})

(***************************************************************************)
(* Take-finished signalling                                                *)
(***************************************************************************)
\* the processing branch is about to execute "needsToSaveCurrentFile = true":
\* in the gap when the remaining gap reaches zero, while playing when the
\* recording cursor reaches the target and the configured gap is zero
RouterRaisesTakeFinished ==
    /\ ~isMeasuringLatency
    /\ ~isTestingHardware
    /\ isProcessing
    /\ numOutputChannels >= 2 /\ numInputChannels >= 2 /\ hasOutputPair /\ hasInputPair
    /\ LET n == deviceBlockSize
           inputBuffer == InputBufferOf(LoopInput(ToHardware(PlayBlock(n))))
       IN IF isInProcessingGap
          THEN processingGapSamplesRemaining - jmin(n, processingGapSamplesRemaining) <= 0
          ELSE /\ RecordStep(inputBuffer, n).position >= targetRecordingSamples
               /\ GapSamples <= 0

\* C13: for each take the router raises needsToSaveCurrentFile exactly once,
\* however many callbacks run before the timer drains the flag: a callback
\* never executes the raise while the flag of the take is still pending.
TakeFinishedRaisedOnce ==
    [][(RouterProcessing /\ RouterRaisesTakeFinished) => ~needsToSaveCurrentFile]_vars

(***************************************************************************)
(* Cancellation                                                            *)
(***************************************************************************)
\* the four mode flags as stopAllAudio leaves them
AllModesOff ==
    /\ ~isProcessing
    /\ ~isPreviewing
    /\ ~isMeasuringLatency
    /\ ~isTestingHardware

\* C14: once the session is stopped (all four mode flags false), a save request
\* that is still pending does not make a timer tick load a file or re-enter a
\* mode: the flags stay false until an explicit start operation.
StoppedStaysStopped ==
    [][(timerCallback /\ AllModesOff /\ needsToSaveCurrentFile)
          => (AllModesOff' /\ currentPlaybackBuffer' = currentPlaybackBuffer)]_vars

(***************************************************************************)
(* Division of work between the audio thread and the message thread        *)
(***************************************************************************)
\* C17: the router never initiates a mode: no callback changes isProcessing,
\* isPreviewing, isMeasuringLatency or isTestingHardware from false to true, and
\* it clears a mode flag only when it completes or fails that mode (a measurement
\* that ends is reported through needsToCompleteLatencyMeasurement, a preview is
\* ended only at an invalid playback position).
RouterNeverStartsMode ==
    [][getNextAudioBlock =>
         /\ isProcessing' = isProcessing
         /\ isTestingHardware' = isTestingHardware
         /\ isPreviewing' => isPreviewing
         /\ isMeasuringLatency' => isMeasuringLatency
         /\ (isMeasuringLatency /\ ~isMeasuringLatency') => needsToCompleteLatencyMeasurement'
         /\ (isPreviewing /\ ~isPreviewing')
               => playbackSamplePosition >= getNumSamples(currentPlaybackBuffer)]_vars

\* the router has ended a measurement and left its report for the timer
RouterEndedMeasurement ==
    /\ ~isMeasuringLatency
    /\ needsToCompleteLatencyMeasurement
    /\ impulseSent

\* C18: single-writer discipline: each one-shot flag is raised only by the
\* real-time router and cleared only by the message thread.
OneShotFlagsSingleWriter ==
    [][/\ ((~needsToSaveCurrentFile /\ needsToSaveCurrentFile')
              \/ (~needsToLoadNextFile /\ needsToLoadNextFile')
              \/ (~needsToCompleteLatencyMeasurement /\ needsToCompleteLatencyMeasurement'))
            => getNextAudioBlock
       /\ ((needsToSaveCurrentFile /\ ~needsToSaveCurrentFile')
              \/ (needsToLoadNextFile /\ ~needsToLoadNextFile')
              \/ (needsToCompleteLatencyMeasurement /\ ~needsToCompleteLatencyMeasurement'))
            => ~getNextAudioBlock]_vars

\* the router's next callback takes the processing branch, which reads the
\* playback buffer and writes the recording buffer
RouterUsesTakeBuffers ==
    /\ ~isMeasuringLatency
    /\ ~isTestingHardware
    /\ isProcessing

\* the router's next callback takes the processing or the preview branch, both of
\* which read the playback buffer
RouterUsesPlaybackBuffer ==
    /\ ~isMeasuringLatency
    /\ ~isTestingHardware
    /\ (isProcessing \/ isPreviewing)

\* C19: the message thread saves from the recording buffer and reloads the
\* playback and recording buffers only in states in which no router callback
\* can access them.
BuffersTouchedOnlyWhenRouterIsOut ==
    [][/\ (TimerSave /\ needsToSaveCurrentFile) => ~RouterUsesTakeBuffers
       /\ (TimerPreviewLoad /\ currentPlaybackBuffer' /= currentPlaybackBuffer)
             => ~RouterUsesPlaybackBuffer]_vars

\* C20: after the router has raised take-finished, and until the sequencer has
\* loaded the next file or ended the batch, every router callback outputs
\* silence and changes neither cursor nor the recording buffer.
RouterHoldsAfterTakeFinished ==
    [][(getNextAudioBlock /\ isProcessing /\ needsToSaveCurrentFile)
          => /\ lastOutput' = Silence(deviceBlockSize)
             /\ UNCHANGED <<playbackSamplePosition, recordingSamplePosition,
                            recordingBuffer>>]_vars

(***************************************************************************)
(* Preview with the audio thread and the message thread interleaved: the   *)
(* mode flags and one-shot flags are plain bools shared without a lock, so *)
(* a message-thread operation can run between the callback's test of       *)
(* isPreviewing and the body of the preview branch                         *)
(***************************************************************************)
PreviewQueues == {<<"a">>, <<"c", "a">>, <<"a", "d">>}

\* a configured session whose queued files are all selected for preview
PreviewInit ==
    /\ \E b \in BlockSizes : /\ InitSession("full", b, BaseRate)
                             /\ Unmeasured(b, BaseRate)
    /\ \E ms \in SilenceMsChoices : silenceBetweenFilesMs = ms
    /\ outputFolderPath = "out"
    /\ \E q \in PreviewQueues :
          files = [i \in 1..Len(q) |-> [NewAudioFile(q[i]) EXCEPT !.isSelected = TRUE]]
    /\ loopGain = "unity"
    /\ \E d \in LoopDelays : loopDelay = d /\ delayLine = Silence(d)
    /\ trimArgs = NoTrimArgs
    /\ trimResult = NoTrimResult
    /\ gapCall = NoGapCall
    /\ peakCall = NoPeakCall
    /\ routerPlan = NoPlan

\* the callback has read the mode flags and takes the preview branch
RouterPreviewEnter ==
    /\ routerPc = "idle"
    /\ ~isMeasuringLatency
    /\ ~isTestingHardware
    /\ ~isProcessing
    /\ isPreviewing
    /\ routerPc' = "preview"
    /\ UNCHANGED <<selectedDeviceID, hasInputPair, hasOutputPair, sampleRate,
                   bufferSize, measuredLatencySamples, lastBufferSizeWhenMeasured,
                   silenceBetweenFilesMs, outputFolderPath, files, currentFileIndex,
                   isProcessing, isMeasuringLatency, isPreviewing, isTestingHardware,
                   currentPlaybackBuffer, recordingBuffer, latencyCaptureBuffer,
                   currentPreviewFileIndex, previewPlaylist, playbackSamplePosition,
                   recordingSamplePosition, targetRecordingSamples, isInProcessingGap,
                   processingGapSamplesRemaining, isInPreviewGap,
                   previewGapSamplesRemaining, impulseSent, capturedSamplesSinceImpulse,
                   sinePhase, needsToSaveCurrentFile, needsToLoadNextFile,
                   needsToCompleteLatencyMeasurement, deviceBlockSize, numInputChannels,
                   numOutputChannels, loopGain, loopDelay, delayLine, timerPc,
                   lastOutput, written, userOps, settingChanges, trimArgs, trimResult,
                   gapCall, peakCall, routerPlan>>

\* the rest of the callback, on the state it finds by then
RouterPreviewRun ==
    /\ routerPc = "preview"
    /\ routerPc' = "idle"
    /\ RouterPreviewBody
    /\ UNCHANGED <<selectedDeviceID, hasInputPair, hasOutputPair, sampleRate,
                   bufferSize, measuredLatencySamples, lastBufferSizeWhenMeasured,
                   silenceBetweenFilesMs, outputFolderPath, files, currentFileIndex,
                   isProcessing, isMeasuringLatency, isTestingHardware,
                   currentPlaybackBuffer, recordingBuffer, latencyCaptureBuffer,
                   currentPreviewFileIndex, previewPlaylist, recordingSamplePosition,
                   targetRecordingSamples, isInProcessingGap,
                   processingGapSamplesRemaining, impulseSent,
                   capturedSamplesSinceImpulse, sinePhase, needsToSaveCurrentFile,
                   needsToCompleteLatencyMeasurement, deviceBlockSize, numInputChannels,
                   numOutputChannels, loopGain, loopDelay, timerPc, written, userOps,
                   settingChanges, trimArgs, trimResult, gapCall, peakCall, routerPlan>>

\* a callback that finds no mode active
RouterIdleCallback ==
    /\ routerPc = "idle"
    /\ RouterIdle

PreviewNext ==
    \/ RouterPreviewEnter
    \/ RouterPreviewRun
    \/ RouterIdleCallback
    \/ timerCallback
    \/ startPreview
    \/ stopPreview

SpecPreview == PreviewInit /\ [][PreviewNext]_vars

\* C15: after stopPreview, once the router callback that was in progress has
\* returned, the playlist is empty, no preview is running and needsToLoadNextFile
\* is false, and this stays so until startPreview is called again.
StoppedPreviewStaysCancelled ==
    (previewPlaylist = <<>> /\ ~isPreviewing /\ routerPc = "idle") => ~needsToLoadNextFile

\* C16: the preview-load handler visits the playlist indices in the order
\* 0, 1, ..., N-1, 0, 1, ...: a tick moves the index from k to k+1 while k+1 is
\* in the playlist, and from N-1 to -1 with the load request left pending, so
\* that the next item loaded is index 0; a successful load puts the audio of
\* the playlist item at the new index into the playback buffer.
PreviewPlaylistLoops ==
    [][TimerPreviewLoad =>
         /\ currentPreviewFileIndex' \in
               {currentPreviewFileIndex} \cup
               (IF currentPreviewFileIndex + 1 < Len(previewPlaylist)
                THEN {currentPreviewFileIndex + 1}
                ELSE {-1})
         /\ (needsToLoadNextFile /\ currentPreviewFileIndex + 1 < Len(previewPlaylist))
               => currentPreviewFileIndex' = currentPreviewFileIndex + 1
         /\ (needsToLoadNextFile /\ currentPreviewFileIndex + 1 >= Len(previewPlaylist))
               => (currentPreviewFileIndex' = -1 /\ needsToLoadNextFile')
         /\ (needsToLoadNextFile /\ ~needsToLoadNextFile')
               => /\ isPreviewing'
                  /\ playbackSamplePosition' = 0
                  /\ currentPlaybackBuffer' =
                        Buf(StereoChannels,
                            Disk[previewPlaylist[currentPreviewFileIndex' + 1]].audio)]_vars

\* the last item of a playlist of two has finished and the handler has wrapped
PreviewWrapped ==
    /\ timerPc = 3
    /\ Len(previewPlaylist) >= 2
    /\ currentPreviewFileIndex = -1
    /\ needsToLoadNextFile
    /\ isPreviewing

(***************************************************************************)
(* The processing branch: Playing and Gap                                  *)
(***************************************************************************)
\* C21: while in Gap the router records only beyond the frames already
\* recorded: a Gap callback leaves frames [0, targetFrames) of the recording
\* buffer as they were recorded during Playing.
GapKeepsRecordedTake ==
    [][(RouterProcessing /\ isInProcessingGap)
          => \A i \in 1..jmin(targetRecordingSamples, getNumSamples(recordingBuffer)) :
                recordingBuffer'.frames[i] = recordingBuffer.frames[i]]_vars

(***************************************************************************)
(* The measurement branch                                                  *)
(***************************************************************************)
\* the capture holds a sample above the router's detection threshold
HasLoudSample(buffer) ==
    \E ch \in 0..(buffer.numChannels - 1), i \in 0..(getNumSamples(buffer) - 1) :
        Abs(Sample(buffer, ch, i)) > RouterThreshold

\* frame p holds a sample of the largest absolute value in the buffer
IsPeakFrame(buffer, p) ==
    \E ch \in 0..(buffer.numChannels - 1) :
        \A c \in 0..(buffer.numChannels - 1), i \in 0..(getNumSamples(buffer) - 1) :
            Abs(Sample(buffer, ch, p)) >= Abs(Sample(buffer, c, i))

\* C22: in the first capturing callback (one that has its input pair and copies the
\* input block) after which the capture holds a sample above the detection
\* threshold, the router sets measuredLatencySamples to twice
\* the frame index of the largest captured sample, records the current buffer
\* size, raises needsToCompleteLatencyMeasurement and clears isMeasuringLatency.
DetectionCompletesInSameCallback ==
    [][(/\ RouterMeasureCapture
        /\ numInputChannels >= 2 /\ hasInputPair
        /\ HasLoudSample(latencyCaptureBuffer'))
          => /\ \E p \in 0..(getNumSamples(latencyCaptureBuffer') - 1) :
                   /\ IsPeakFrame(latencyCaptureBuffer', p)
                   /\ measuredLatencySamples' = p * StereoChannels
             /\ lastBufferSizeWhenMeasured' = bufferSize
             /\ needsToCompleteLatencyMeasurement'
             /\ ~isMeasuringLatency']_vars

\* the router has just detected the returning impulse at a frame after the first
ImpulseDetected ==
    /\ ~isMeasuringLatency
    /\ needsToCompleteLatencyMeasurement
    /\ HasLoudSample(latencyCaptureBuffer)
    /\ measuredLatencySamples > 0

\* C23: when no captured sample exceeds the detection threshold, the router
\* signals failure (measuredLatencySamples = -1, completion flag raised,
\* isMeasuringLatency cleared) in the callback in which the capture cursor
\* reaches the capture-buffer length, for every block size.
TimeoutWhenCaptureFull ==
    [][(/\ RouterMeasureCapture
        /\ numInputChannels >= 2 /\ hasInputPair
        /\ ~HasLoudSample(latencyCaptureBuffer')
        /\ capturedSamplesSinceImpulse < getNumSamples(latencyCaptureBuffer)
        /\ capturedSamplesSinceImpulse' >= getNumSamples(latencyCaptureBuffer))
          => /\ measuredLatencySamples' = -1
             /\ needsToCompleteLatencyMeasurement'
             /\ ~isMeasuringLatency']_vars

\* the output block of the last callback is the impulse: full scale at frame 0 of
\* both channels, zero everywhere else
ImpulseWasEmitted ==
    \A i \in 1..Len(lastOutput) :
        lastOutput[i] = IF i = 1 THEN <<ImpulseAmplitude, ImpulseAmplitude>> ELSE <<0, 0>>

\* C25: during a measurement the first callback after startLatencyMeasurement
\* emits the impulse (full scale at frame 0 of both channels, zero elsewhere) and
\* resets the capture cursor to 0.
ImpulseInFirstCallback ==
    [][(getNextAudioBlock /\ isMeasuringLatency /\ ~impulseSent)
          => (ImpulseWasEmitted' /\ impulseSent' /\ capturedSamplesSinceImpulse' = 0)]_vars

\* C25, amended: a callback of a measurement that has two output channels and an
\* output pair emits the impulse if none has been sent, and resets the capture
\* cursor; every other callback taken while isMeasuringLatency is true writes
\* only zeros and sends no impulse, so the impulse is emitted in exactly one callback.
ImpulseOnceThenSilence ==
    [][(getNextAudioBlock /\ isMeasuringLatency)
          => IF ~impulseSent /\ numOutputChannels >= 2 /\ hasOutputPair
             THEN ImpulseWasEmitted' /\ impulseSent' /\ capturedSamplesSinceImpulse' = 0
             ELSE /\ lastOutput' = Silence(deviceBlockSize)
                  /\ impulseSent' = impulseSent]_vars

\* the impulse has just been sent in a block of more than one frame
ImpulseJustSent ==
    /\ isMeasuringLatency
    /\ impulseSent
    /\ capturedSamplesSinceImpulse = 0
    /\ Len(lastOutput) > 1
    /\ ImpulseWasEmitted

(***************************************************************************)
(* Playing                                                                 *)
(***************************************************************************)
\* a callback of the processing branch outside the gap, with stereo output and input
PlayingCallback ==
    /\ RouterProcessing
    /\ ~isInProcessingGap
    /\ numOutputChannels >= 2 /\ numInputChannels >= 2 /\ hasOutputPair /\ hasInputPair

\* C26: while Playing, a callback of block length n copies the next
\* min(n, source frames remaining) source frames to the output and leaves the rest
\* of the block silent, copies the input block into the recording buffer at the
\* recording cursor, clamped to the remaining capacity, and advances the two
\* cursors independently; recording goes on after the source has been played out,
\* until the recording cursor reaches targetFrames.
PlayingCopiesAndRecords ==
    [][PlayingCallback =>
         LET n == deviceBlockSize
             sourceLeft == jmax(0, getNumSamples(currentPlaybackBuffer) - playbackSamplePosition)
             played == jmin(n, sourceLeft)
             room == jmax(0, getNumSamples(recordingBuffer) - recordingSamplePosition)
             recorded == jmin(n, room)
             input == LoopInput(lastOutput')
             reached == recordingSamplePosition + recorded >= targetRecordingSamples
         IN /\ \A i \in 1..n :
                  lastOutput'[i] =
                     IF i <= played
                     THEN currentPlaybackBuffer.frames[playbackSamplePosition + i]
                     ELSE <<0, 0>>
            /\ \A j \in 1..getNumSamples(recordingBuffer) :
                  recordingBuffer'.frames[j] =
                     IF j > recordingSamplePosition /\ j <= recordingSamplePosition + recorded
                     THEN input[j - recordingSamplePosition]
                     ELSE recordingBuffer.frames[j]
            /\ ~reached => /\ playbackSamplePosition' = playbackSamplePosition + played
                           /\ recordingSamplePosition' = recordingSamplePosition + recorded
                           /\ isProcessing' /\ ~isInProcessingGap'
                           /\ needsToSaveCurrentFile' = needsToSaveCurrentFile]_vars

\* the source has been played out and the take is still being recorded
RecordingAfterSourceEnd ==
    /\ isProcessing
    /\ ~isInProcessingGap
    /\ playbackSamplePosition >= getNumSamples(currentPlaybackBuffer)
    /\ recordingSamplePosition > playbackSamplePosition
    /\ recordingSamplePosition < targetRecordingSamples
    /\ \E j \in 1..recordingSamplePosition : recordingBuffer.frames[j] /= <<0, 0>>

\* a callback that finds the router in the Gap of a take, of a preview item
ProcessingGapCallback == RouterProcessing /\ isInProcessingGap

PreviewGapCallback == RouterPreview /\ isInPreviewGap

\* the channel pairs the processing branch, the preview branch asks for
ProcessingPairsReady ==
    numOutputChannels >= 2 /\ numInputChannels >= 2 /\ hasOutputPair /\ hasInputPair

PreviewPairReady == numOutputChannels >= 2 /\ hasOutputPair

GapCountersNonNegative ==
    processingGapSamplesRemaining >= 0 /\ previewGapSamplesRemaining >= 0

GapCountersNeverRise ==
    /\ (isInProcessingGap /\ isInProcessingGap') =>
           processingGapSamplesRemaining' <= processingGapSamplesRemaining
    /\ (isInPreviewGap /\ isInPreviewGap') =>
           previewGapSamplesRemaining' <= previewGapSamplesRemaining

\* C28 (as stated): in every step the processing and preview gap counters are
\* non-negative before and after and do not rise while the router stays in Gap,
\* and every callback made in Gap lowers the counter by min(block length, counter).
EveryGapCallbackLowersCounter ==
    [][/\ GapCountersNonNegative
       /\ GapCountersNonNegative'
       /\ GapCountersNeverRise
       /\ ProcessingGapCallback =>
              processingGapSamplesRemaining' = processingGapSamplesRemaining
                  - jmin(deviceBlockSize, processingGapSamplesRemaining)
       /\ PreviewGapCallback =>
              previewGapSamplesRemaining' = previewGapSamplesRemaining
                  - jmin(deviceBlockSize, previewGapSamplesRemaining)]_vars

\* C28 (amended): in every step the gap counters are non-negative before and after
\* and do not rise while the router stays in Gap; a callback made in Gap lowers the
\* counter by min(block length, counter) when the device has the stereo pairs the
\* branch asks for (input and output for processing, output for preview), and
\* leaves it as it is when it has not.
GapCallbackLowersCounterWithPairs ==
    [][/\ GapCountersNonNegative
       /\ GapCountersNonNegative'
       /\ GapCountersNeverRise
       /\ ProcessingGapCallback =>
              processingGapSamplesRemaining' =
                  IF ProcessingPairsReady
                  THEN processingGapSamplesRemaining
                           - jmin(deviceBlockSize, processingGapSamplesRemaining)
                  ELSE processingGapSamplesRemaining
       /\ PreviewGapCallback =>
              previewGapSamplesRemaining' =
                  IF PreviewPairReady
                  THEN previewGapSamplesRemaining
                           - jmin(deviceBlockSize, previewGapSamplesRemaining)
                  ELSE previewGapSamplesRemaining]_vars

\* a Gap callback has lowered the counter of a take and left part of the gap
GapPartlyCounted ==
    /\ isProcessing
    /\ isInProcessingGap
    /\ processingGapSamplesRemaining > 0
    /\ processingGapSamplesRemaining < GapSamples

\* the save of the current take is due and its output file cannot be written
SaveFails ==
    /\ needsToSaveCurrentFile
    /\ currentFileIndex >= 0
    /\ currentFileIndex < Len(files)
    /\ ~FolderWritable(outputFolderPath)

\* C29: when the save of the current take fails, the timer tick that runs it marks
\* the file failed (not completed), advances currentFileIndex by one and, when a
\* file is left, loads it: a loadable file becomes the take in progress with its
\* audio as the playback buffer, an unloadable one is marked failed.
FailedSaveAdvancesBatch ==
    [][(TimerSave /\ SaveFails) =>
          /\ files'[currentFileIndex + 1].status = "failed"
          /\ currentFileIndex' = currentFileIndex + 1
          /\ (currentFileIndex + 1 < Len(files)) =>
                LET next == files[currentFileIndex + 2]
                IN IF isValid(next) /\ Disk[next.id].readable
                   THEN /\ files'[currentFileIndex + 2].status = "processing"
                        /\ currentPlaybackBuffer' = Buf(StereoChannels, Disk[next.id].audio)
                        /\ isProcessing'
                        /\ ~needsToSaveCurrentFile'
                   ELSE files'[currentFileIndex + 2].status = "failed"]_vars

\* the first take was recorded but could not be saved, and the second is in progress
FailedSaveThenNextTake ==
    /\ Len(files) >= 2
    /\ currentFileIndex = 1
    /\ isProcessing
    /\ isValid(files[1]) /\ Disk[files[1].id].readable
    /\ files[1].status = "failed"
    /\ files[2].status = "processing"
    /\ written = << >>

\* C30: from the callback in which the router raises needsToLoadNextFile for a
\* preview item until the sequencer has loaded the next entry, every router
\* callback outputs silence and leaves the playback cursor where it is, so that no
\* frame of the finished item is played again.
PendingPreviewLoadIsSilent ==
    [][(RouterPreview /\ needsToLoadNextFile)
          => /\ lastOutput' = Silence(deviceBlockSize)
             /\ UNCHANGED playbackSamplePosition]_vars

(***************************************************************************)
(* A measurement under fair scheduling of the audio callback               *)
(***************************************************************************)
\* unmeasured sessions on the stereo device, over every loop and block size
MeasureSetups ==
    {[BaseSetup EXCEPT !.gain = g, !.block = b, !.delay = d] :
        g \in LoopGains, b \in BlockSizes, d \in LoopDelays}

MeasureInit ==
    /\ \E s \in MeasureSetups : InitSetup(s)
    /\ trimArgs = NoTrimArgs
    /\ trimResult = NoTrimResult
    /\ gapCall = NoGapCall
    /\ peakCall = NoPeakCall
    /\ routerPlan = NoPlan

\* no batch, preview or hardware test is requested, so the router only takes its
\* measurement and idle branches
MeasureRouter ==
    \/ RouterMeasureSend
    \/ RouterMeasureCapture
    \/ RouterIdle

MeasureNext ==
    \/ MeasureRouter
    \/ timerCallback
    \/ startLatencyMeasurement
    \/ \E d \in DOMAIN Devices : selectDevice(d)

SpecMeasure ==
    /\ MeasureInit
    /\ [][MeasureNext]_vars
    /\ WF_vars(MeasureRouter)
    /\ WF_vars(timerCallback)

\* C24: every measurement started by startLatencyMeasurement terminates: with
\* router callbacks scheduled fairly, isMeasuringLatency is eventually cleared,
\* for every input signal and every channel count the device delivers.
MeasurementTerminates == isMeasuringLatency ~> ~isMeasuringLatency

(***************************************************************************)
(* The gap length as a pure function of the settings: SpecGap draws the    *)
(* silence slider's values and the sample rates the settings page offers   *)
(* and computes the gap once, as the router does at the end of a take      *)
(***************************************************************************)
SilenceSliderValues == {50 * k : k \in 0..20}

SampleRateItems == {44100, 48000, 88200, 96000, 176400, 192000}

GapInit ==
    /\ InitSetup(BaseSetup)
    /\ trimArgs = NoTrimArgs
    /\ trimResult = NoTrimResult
    /\ gapCall \in [ms : SilenceSliderValues, rate : SampleRateItems,
                    done : {FALSE}, gap : {0}]
    /\ peakCall = NoPeakCall
    /\ routerPlan = NoPlan

GapCall ==
    /\ ~gapCall.done
    /\ gapCall' = [gapCall EXCEPT !.done = TRUE,
                                  !.gap = GapSamplesOf(gapCall.ms, gapCall.rate)]
    /\ UNCHANGED <<selectedDeviceID, hasInputPair, hasOutputPair, sampleRate,
                   bufferSize, measuredLatencySamples, lastBufferSizeWhenMeasured,
                   silenceBetweenFilesMs, outputFolderPath, files, currentFileIndex,
                   isProcessing, isMeasuringLatency, isPreviewing, isTestingHardware,
                   currentPlaybackBuffer, recordingBuffer, latencyCaptureBuffer,
                   currentPreviewFileIndex, previewPlaylist, playbackSamplePosition,
                   recordingSamplePosition, targetRecordingSamples, isInProcessingGap,
                   processingGapSamplesRemaining, isInPreviewGap,
                   previewGapSamplesRemaining, impulseSent, capturedSamplesSinceImpulse,
                   sinePhase, needsToSaveCurrentFile, needsToLoadNextFile,
                   needsToCompleteLatencyMeasurement, deviceBlockSize, numInputChannels,
                   numOutputChannels, loopGain, loopDelay, delayLine, timerPc, routerPc,
                   lastOutput, written, userOps, settingChanges, trimArgs, trimResult,
                   peakCall, routerPlan>>

SpecGap == GapInit /\ [][GapCall]_vars

\* C27: at the end of a take the gap length is floor(silenceBetweenFilesMs / 1000 *
\* sampleRate): the whole number of samples in that many milliseconds
GapIsFloorOfExactLength ==
    gapCall.done => gapCall.gap = (gapCall.ms * gapCall.rate) \div 1000

(***************************************************************************)
(* Batches and previews with gaps of one and of several blocks             *)
(***************************************************************************)
GapsSilenceMs == {250, LongSilenceMs}

GapsQueues == {<<"a">>, <<"c", "a">>}

\* a measured session on the stereo device whose queued files are all selected
GapsInit ==
    /\ \E b \in BlockSizes :
          /\ InitSession("full", b, BaseRate)
          /\ Measured(b, BaseRate, BaseSetup.delay)
    /\ loopDelay = BaseSetup.delay
    /\ delayLine = Silence(BaseSetup.delay)
    /\ \E ms \in GapsSilenceMs : silenceBetweenFilesMs = ms
    /\ outputFolderPath = "out"
    /\ \E q \in GapsQueues :
          files = [i \in 1..Len(q) |-> [NewAudioFile(q[i]) EXCEPT !.isSelected = TRUE]]
    /\ loopGain = "unity"
    /\ trimArgs = NoTrimArgs
    /\ trimResult = NoTrimResult
    /\ gapCall = NoGapCall
    /\ peakCall = NoPeakCall
    /\ routerPlan = NoPlan

\* no measurement and no hardware test is requested, so the router only takes its
\* processing, preview and idle branches
GapsRouter ==
    \/ RouterProcessing
    \/ RouterPreview
    \/ RouterIdle

\* one batch or one preview is started in a session
GapsStartProcessing == userOps = 0 /\ startProcessing

GapsStartPreview == userOps = 0 /\ startPreview

GapsNext ==
    \/ GapsRouter
    \/ timerCallback
    \/ GapsStartProcessing
    \/ GapsStartPreview
    \/ \E d \in DOMAIN Devices : selectDevice(d)

SpecGaps == GapsInit /\ [][GapsNext]_vars

(***************************************************************************)
(* Preview start, frame conditions, peak search and batch bookkeeping      *)
(***************************************************************************)
SelectedAndValid(file) == file.isSelected /\ isValid(file)

\* the identifiers of the selected, rate-valid files in file-list order
PlayableIds ==
    LET playable == SelectSeq(files, SelectedAndValid)
    IN [i \in 1..Len(playable) |-> playable[i].id]

\* C31: a startPreview that has an output pair leaves as the playlist exactly the
\* identifiers of the files that are selected and sample-rate-valid, in file-list
\* order; when that playlist is not empty it sets currentPreviewFileIndex to -1 and
\* raises needsToLoadNextFile, and the timer's load from index -1 loads entry 0.
StartPreviewBuildsPlaylist ==
    [][/\ (startPreview /\ hasOutputPair) =>
             /\ previewPlaylist' = PlayableIds
             /\ (PlayableIds /= <<>>) =>
                   (currentPreviewFileIndex' = -1 /\ needsToLoadNextFile')
       /\ (TimerPreviewLoad /\ needsToLoadNextFile /\ currentPreviewFileIndex = -1
              /\ previewPlaylist /= <<>>) =>
             currentPreviewFileIndex' = 0]_vars

\* a preview has been started over a queue of which one file is left out
PlaylistLeavesFileOut ==
    /\ previewPlaylist /= <<>>
    /\ previewPlaylist = PlayableIds
    /\ Len(previewPlaylist) < Len(files)
    /\ currentPreviewFileIndex = -1
    /\ needsToLoadNextFile

\* C32: no router callback in the preview branch and no step of the preview
\* sequencer (start, load, stop) changes the recording buffer, the recording cursor
\* or measuredLatencySamples, and a startPreview with an output pair and a playable
\* file starts the preview whether or not a latency has been measured.
PreviewRecordsNothing ==
    [][/\ (RouterPreview \/ TimerPreviewLoad \/ startPreview \/ stopPreview) =>
             UNCHANGED <<recordingBuffer, recordingSamplePosition, measuredLatencySamples>>
       /\ (startPreview /\ hasOutputPair /\ PlayableIds /= <<>>) =>
             (needsToLoadNextFile' /\ currentPreviewFileIndex' = -1)]_vars

\* an item of a preview has been played on a session without a measured latency
PreviewedUnmeasured ==
    /\ isPreviewing
    /\ measuredLatencySamples < 0
    /\ isInPreviewGap

\* C33: a router callback that finds no mode flag set outputs a block of silence
\* and changes no cursor, no gap state, no buffer, no one-shot flag and not
\* measuredLatencySamples.
IdleCallbackChangesNothing ==
    [][(getNextAudioBlock /\ AllModesOff) =>
          /\ lastOutput' = Silence(deviceBlockSize)
          /\ UNCHANGED <<playbackSamplePosition, recordingSamplePosition,
                         capturedSamplesSinceImpulse, impulseSent, sinePhase,
                         isInProcessingGap, processingGapSamplesRemaining,
                         isInPreviewGap, previewGapSamplesRemaining,
                         currentPlaybackBuffer, recordingBuffer, latencyCaptureBuffer,
                         needsToSaveCurrentFile, needsToLoadNextFile,
                         needsToCompleteLatencyMeasurement, measuredLatencySamples,
                         targetRecordingSamples, currentFileIndex,
                         currentPreviewFileIndex, files, previewPlaylist>>]_vars

\* a batch was stopped in the middle of a take, with the save of a take pending,
\* and the loop has since carried nothing but silence
StoppedMidCycleAndSilent ==
    /\ AllModesOff
    /\ \E i \in 1..Len(files) : files[i].status = "processing"
    /\ needsToSaveCurrentFile
    /\ lastOutput = Silence(deviceBlockSize)
    /\ delayLine = Silence(loopDelay)
    /\ \E i \in 1..getNumSamples(recordingBuffer) :
          recordingBuffer.frames[i] /= ZeroFrame(recordingBuffer.numChannels)

\* C35: while isProcessing is true measuredLatencySamples is not negative and no
\* step changes it, so a take is trimmed with the latency it was sized with.
LatencyFixedWhileProcessing ==
    [][/\ isProcessing => measuredLatencySamples >= 0
       /\ (isProcessing /\ isProcessing') =>
             measuredLatencySamples' = measuredLatencySamples]_vars

\* C36: at most one queued file has status processing, and a file has that status
\* only while isProcessing is true and it is the file at currentFileIndex.
OnlyCurrentFileIsProcessing ==
    \A i \in 1..Len(files) :
       files[i].status = "processing" => (isProcessing /\ currentFileIndex = i - 1)

\* C37: startLatencyMeasurement, startHardwareTest and startPreview, when their
\* validation fails, leave the mode flags, the cursors, the one-shot flags and the
\* preview playlist unchanged.
FailedStartChangesNothing ==
    [][((startLatencyMeasurement /\ ~canMeasureLatency)
           \/ (startHardwareTest /\ ~canMeasureLatency)
           \/ (startPreview /\ (~hasOutputPair \/ PlayableIds = <<>>))) =>
          UNCHANGED <<isProcessing, isMeasuringLatency, isPreviewing, isTestingHardware,
                      playbackSamplePosition, recordingSamplePosition,
                      needsToSaveCurrentFile, needsToLoadNextFile,
                      needsToCompleteLatencyMeasurement, previewPlaylist>>]_vars

\* C38: whenever the timer saves a take, the output folder is not the parent folder
\* of any queued source file, and no file the save writes has the path of a queued
\* source file.
SaveNeverInSourceFolder ==
    [][(TimerSave /\ needsToSaveCurrentFile) =>
          /\ \A i \in 1..Len(files) : Disk[files[i].id].dir /= outputFolderPath
          /\ \A p \in DOMAIN written' \ DOMAIN written :
                \A i \in 1..Len(files) : p /= SourcePath(files[i])]_vars

\* C40: currentFileIndex always lies between 0 and the number of queued files, and
\* the timer's save handler reports the batch complete only for a batch that is
\* still running, so once per started batch.
IndexWithinQueueAndOneSummary ==
    [][/\ currentFileIndex' >= 0
       /\ currentFileIndex' <= Len(files')
       /\ (TimerSave /\ needsToSaveCurrentFile /\ currentFileIndex + 1 >= Len(files)) =>
             isProcessing]_vars

(***************************************************************************)
(* findPeakPosition as a pure function: SpecPeak draws a buffer and one of *)
(* the two thresholds the program passes and applies the function once     *)
(***************************************************************************)
MaxPeakFrames == 2

PeakSamples == {-6, 0, 1, 5}

PeakBuffers ==
    UNION {{Buf(ch, fr) : fr \in [1..n -> [1..ch -> PeakSamples]]} :
              ch \in 1..StereoChannels, n \in 0..MaxPeakFrames}

PeakThresholds == {RouterThreshold, TimerThreshold}

PeakInit ==
    /\ InitSetup(BaseSetup)
    /\ trimArgs = NoTrimArgs
    /\ trimResult = NoTrimResult
    /\ gapCall = NoGapCall
    /\ peakCall \in [buffer : PeakBuffers, threshold : PeakThresholds,
                     done : {FALSE}, position : {-1}]
    /\ routerPlan = NoPlan

PeakCall ==
    /\ ~peakCall.done
    /\ peakCall' = [peakCall EXCEPT !.done = TRUE,
                                    !.position = findPeakPosition(peakCall.buffer,
                                                                  peakCall.threshold)]
    /\ UNCHANGED <<selectedDeviceID, hasInputPair, hasOutputPair, sampleRate,
                   bufferSize, measuredLatencySamples, lastBufferSizeWhenMeasured,
                   silenceBetweenFilesMs, outputFolderPath, files, currentFileIndex,
                   isProcessing, isMeasuringLatency, isPreviewing, isTestingHardware,
                   currentPlaybackBuffer, recordingBuffer, latencyCaptureBuffer,
                   currentPreviewFileIndex, previewPlaylist, playbackSamplePosition,
                   recordingSamplePosition, targetRecordingSamples, isInProcessingGap,
                   processingGapSamplesRemaining, isInPreviewGap,
                   previewGapSamplesRemaining, impulseSent, capturedSamplesSinceImpulse,
                   sinePhase, needsToSaveCurrentFile, needsToLoadNextFile,
                   needsToCompleteLatencyMeasurement, deviceBlockSize, numInputChannels,
                   numOutputChannels, loopGain, loopDelay, delayLine, timerPc, routerPc,
                   lastOutput, written, userOps, settingChanges, trimArgs, trimResult,
                   gapCall, routerPlan>>

SpecPeak == PeakInit /\ [][PeakCall]_vars

\* the largest absolute sample of a buffer, 0 for a buffer without samples
MaxAbsSample(buffer) ==
    LET values == {0} \cup {Abs(buffer.frames[i][c]) :
                               i \in 1..getNumSamples(buffer), c \in 1..buffer.numChannels}
    IN CHOOSE m \in values : \A v \in values : v <= m

\* C34: findPeakPosition returns -1 when the largest absolute sample over all
\* channels and frames is at most the threshold, otherwise a frame index at which
\* some channel holds that largest absolute sample; the buffer is left as it was.
PeakIsGlobalMaximum ==
    [][PeakCall =>
          LET buffer == peakCall.buffer
              position == peakCall'.position
          IN /\ peakCall'.buffer = buffer
             /\ IF MaxAbsSample(buffer) <= peakCall.threshold
                THEN position = -1
                ELSE /\ position \in 0..(getNumSamples(buffer) - 1)
                     /\ \E c \in 1..buffer.numChannels :
                           Abs(buffer.frames[position + 1][c]) = MaxAbsSample(buffer)]_vars

\* the peak is in the second channel of the second frame, behind a smaller sample
\* of the first frame that is itself above the threshold
PeakBehindSmallerSample ==
    /\ peakCall.done
    /\ peakCall.position = 1
    /\ peakCall.buffer.numChannels = StereoChannels
    /\ Abs(peakCall.buffer.frames[1][1]) > peakCall.threshold
    /\ Abs(peakCall.buffer.frames[2][2]) > Abs(peakCall.buffer.frames[1][1])
    /\ Abs(peakCall.buffer.frames[2][1]) < Abs(peakCall.buffer.frames[2][2])

(***************************************************************************)
(* Starting a measurement, a hardware test or a preview in a session whose *)
(* files are selected, with the device and the selection changing between  *)
(* the requests                                                            *)
(***************************************************************************)
\* the measured session on the stereo device with its one queued file selected
StartsInit ==
    /\ InitSession(BaseSetup.device, BaseSetup.block, BaseRate)
    /\ Measured(BaseSetup.block, BaseRate, BaseSetup.delay)
    /\ loopDelay = BaseSetup.delay
    /\ delayLine = Silence(BaseSetup.delay)
    /\ silenceBetweenFilesMs = BaseSetup.silenceMs
    /\ outputFolderPath = BaseSetup.folder
    /\ files = <<[NewAudioFile("a") EXCEPT !.isSelected = TRUE]>>
    /\ loopGain = BaseSetup.gain
    /\ trimArgs = NoTrimArgs
    /\ trimResult = NoTrimResult
    /\ gapCall = NoGapCall
    /\ peakCall = NoPeakCall
    /\ routerPlan = NoPlan

\* no batch is started, so the router takes every branch but the processing one
StartsRouter ==
    \/ RouterMeasureSend
    \/ RouterMeasureCapture
    \/ RouterHardwareTest
    \/ RouterPreview
    \/ RouterIdle

StartsNext ==
    \/ StartsRouter
    \/ timerCallback
    \/ startLatencyMeasurement
    \/ startHardwareTest
    \/ startPreview
    \/ \E i \in 0..(MaxFiles - 1) : toggleFileSelection(i)
    \/ \E d \in DOMAIN Devices : selectDevice(d)

SpecStarts == StartsInit /\ [][StartsNext]_vars

(***************************************************************************)
(* A batch with the audio thread and the message thread interleaved: the   *)
(* session buffers are resized by the timer's load while isProcessing is   *)
(* set, with no lock between the callback's reading of a buffer's length   *)
(* and its copy                                                            *)
(***************************************************************************)
OverlapQueues == {<<"a", "c">>, <<"c", "a">>}

\* a measured session on the stereo device
OverlapInit ==
    /\ \E b \in BlockSizes :
          /\ InitSession(BaseSetup.device, b, BaseRate)
          /\ Measured(b, BaseRate, BaseSetup.delay)
    /\ loopDelay = BaseSetup.delay
    /\ delayLine = Silence(BaseSetup.delay)
    /\ \E ms \in SilenceMsChoices : silenceBetweenFilesMs = ms
    /\ outputFolderPath = BaseSetup.folder
    /\ \E q \in OverlapQueues : files = [i \in 1..Len(q) |-> NewAudioFile(q[i])]
    /\ loopGain = BaseSetup.gain
    /\ trimArgs = NoTrimArgs
    /\ trimResult = NoTrimResult
    /\ gapCall = NoGapCall
    /\ peakCall = NoPeakCall
    /\ routerPlan = NoPlan

\* lines 347-415: the callback takes the processing branch and computes, from the
\* lengths and cursors it reads, how many frames it will play and record
RouterProcessingEnter ==
    /\ routerPc = "idle"
    /\ ~isMeasuringLatency
    /\ ~isTestingHardware
    /\ isProcessing
    /\ routerPc' = "processing"
    /\ LET n == deviceBlockSize
           active == numOutputChannels >= 2 /\ numInputChannels >= 2
                     /\ hasOutputPair /\ hasInputPair
           capacity == getNumSamples(recordingBuffer)
       IN routerPlan' =
             [gap |-> isInProcessingGap,
              samplesToPlay |-> IF active /\ ~isInProcessingGap THEN SamplesToPlay(n) ELSE 0,
              samplesToRecord |->
                 IF active /\ recordingSamplePosition < capacity
                 THEN jmax(0, jmin(n, capacity - recordingSamplePosition))
                 ELSE 0]
    /\ UNCHANGED <<selectedDeviceID, hasInputPair, hasOutputPair, sampleRate,
                   bufferSize, measuredLatencySamples, lastBufferSizeWhenMeasured,
                   silenceBetweenFilesMs, outputFolderPath, files, currentFileIndex,
                   isProcessing, isMeasuringLatency, isPreviewing, isTestingHardware,
                   currentPlaybackBuffer, recordingBuffer, latencyCaptureBuffer,
                   currentPreviewFileIndex, previewPlaylist, playbackSamplePosition,
                   recordingSamplePosition, targetRecordingSamples, isInProcessingGap,
                   processingGapSamplesRemaining, isInPreviewGap,
                   previewGapSamplesRemaining, impulseSent, capturedSamplesSinceImpulse,
                   sinePhase, needsToSaveCurrentFile, needsToLoadNextFile,
                   needsToCompleteLatencyMeasurement, deviceBlockSize, numInputChannels,
                   numOutputChannels, loopGain, loopDelay, delayLine, timerPc,
                   lastOutput, written, userOps, settingChanges, trimArgs, trimResult,
                   gapCall, peakCall>>

\* the block the copy loop of lines 400-404 produces on the playback buffer as it is
\* now: a frame read past the end of the buffer holds whatever that memory holds
PlayPlanned(n, beyond) ==
    [i \in 1..n |->
        IF i > routerPlan.samplesToPlay
        THEN <<0, 0>>
        ELSE IF playbackSamplePosition + i - 1 < getNumSamples(currentPlaybackBuffer)
        THEN <<Sample(currentPlaybackBuffer, 0, playbackSamplePosition + i - 1),
               Sample(currentPlaybackBuffer, 1, playbackSamplePosition + i - 1)>>
        ELSE <<beyond, beyond>>]

\* lines 357-445 from the copies on: the frames are copied with the counts computed
\* on entry, on the buffers and cursors as they are by then; a frame written past
\* the end of the recording buffer lands outside it
RouterProcessingRun ==
    /\ routerPc = "processing"
    /\ routerPc' = "idle"
    /\ routerPlan' = NoPlan
    /\ \E beyond \in FreshMemory :
          LET n == deviceBlockSize
              active == numOutputChannels >= 2 /\ numInputChannels >= 2
                        /\ hasOutputPair /\ hasInputPair
              out == PlayPlanned(n, beyond)
              inputBuffer == InputBufferOf(LoopInput(ToHardware(out)))
              recorded == IF routerPlan.samplesToRecord > 0
                          THEN CopyStereo(recordingBuffer, recordingSamplePosition,
                                          inputBuffer.frames, 0, routerPlan.samplesToRecord)
                          ELSE recordingBuffer
              position == recordingSamplePosition + routerPlan.samplesToRecord
          IN /\ RouterEmit(out)
             /\ IF ~active
                THEN UNCHANGED <<playbackSamplePosition, recordingSamplePosition,
                                 recordingBuffer, isInProcessingGap,
                                 processingGapSamplesRemaining, needsToSaveCurrentFile>>
                ELSE IF routerPlan.gap
                THEN LET remaining == GapRemainingAfter(n, processingGapSamplesRemaining)
                     IN /\ processingGapSamplesRemaining' = remaining
                        /\ recordingBuffer' = recorded
                        /\ recordingSamplePosition' = position
                        /\ isInProcessingGap' = (remaining > 0)
                        /\ needsToSaveCurrentFile' =
                              IF remaining <= 0 THEN TRUE ELSE needsToSaveCurrentFile
                        /\ UNCHANGED playbackSamplePosition
                ELSE LET finished == position >= targetRecordingSamples
                     IN /\ recordingBuffer' = recorded
                        /\ playbackSamplePosition' =
                              IF finished THEN 0
                              ELSE playbackSamplePosition + routerPlan.samplesToPlay
                        /\ recordingSamplePosition' = IF finished THEN 0 ELSE position
                        /\ processingGapSamplesRemaining' =
                              IF finished THEN GapSamples ELSE processingGapSamplesRemaining
                        /\ isInProcessingGap' =
                              (finished /\ processingGapSamplesRemaining' > 0)
                        /\ needsToSaveCurrentFile' =
                              IF finished /\ processingGapSamplesRemaining' <= 0
                              THEN TRUE
                              ELSE needsToSaveCurrentFile
    /\ UNCHANGED <<selectedDeviceID, hasInputPair, hasOutputPair, sampleRate,
                   bufferSize, measuredLatencySamples, lastBufferSizeWhenMeasured,
                   silenceBetweenFilesMs, outputFolderPath, files, currentFileIndex,
                   isProcessing, isMeasuringLatency, isPreviewing, isTestingHardware,
                   currentPlaybackBuffer, latencyCaptureBuffer, currentPreviewFileIndex,
                   previewPlaylist, targetRecordingSamples, isInPreviewGap,
                   previewGapSamplesRemaining, impulseSent, capturedSamplesSinceImpulse,
                   sinePhase, needsToLoadNextFile, needsToCompleteLatencyMeasurement,
                   deviceBlockSize, numInputChannels, numOutputChannels, loopGain,
                   loopDelay, timerPc, written, userOps, settingChanges, trimArgs,
                   trimResult, gapCall, peakCall>>

OverlapNext ==
    \/ RouterProcessingEnter
    \/ RouterProcessingRun
    \/ RouterIdleCallback
    \/ timerCallback
    \/ startProcessing

SpecOverlap == OverlapInit /\ [][OverlapNext]_vars

\* C39: every router read from the playback buffer and every router write into
\* the recording buffer is within the buffer's current length: where the copy
\* happens, cursor plus number of frames copied does not exceed the length.
RouterAccessesInBounds ==
    [][RouterProcessingRun =>
          /\ routerPlan.samplesToPlay > 0 =>
                playbackSamplePosition + routerPlan.samplesToPlay
                   <= getNumSamples(currentPlaybackBuffer)
          /\ routerPlan.samplesToRecord > 0 =>
                recordingSamplePosition + routerPlan.samplesToRecord
                   <= getNumSamples(recordingBuffer)]_vars

====
